---- MODULE Spec2Model ----
(***************************************************************************)
(* State-machine model of the reactivity engine of src/src/reactivity.ts:  *)
(* refs, effects, one computed ref, the dependency graph, trigger routing  *)
(* and update batching.  The engine is single-threaded and synchronous, so *)
(* every public call is one action; the nested calls it makes (trigger ->  *)
(* effect -> write -> trigger ...) are evaluated by mutually recursive     *)
(* operators that transform a record holding the whole engine state.       *)
(* `log` is a history variable: the events of the last public call.        *)
(***************************************************************************)
EXTENDS Integers, Sequences, FiniteSets, TLC

\* ------------------------------------------------------------------ bounds
\* Largest ordinary number a caller writes into a ref.
MaxVal == 1
\* Depth of the JavaScript call stack, counted in nested effect runs: an
\* effect started at this depth fails with a RangeError.
MaxStack == 3

\* Largest length of the reactive array.
MaxLen == 2

\* Nesting depth of the deepest composite of the nested object
\* tree = { c: { c: { c: ... 0 } } }.
MaxDepth == 3

\* Largest number of proxies stacked on one object of tree by reactive(proxy).
MaxWrap == 2
MaxDeps == 2
MaxNodes == 2
MaxSlots == 2

\* Configuration default: DEFAULT_CONFIG.deepReactiveMaxDepth, and the value
\* reactive() falls back to.
DefaultMaxDepth == 10
\* Configuration default: DEFAULT_CONFIG.batchUpdates.
batchUpdates == TRUE

\* ------------------------------------------------------------------ values
\* Numbers held by refs: 0..MaxVal and the sums the getter forms, plus NaN
\* (on which Object.is and === disagree), plus undefined.
NaN == 2 * MaxVal + 1
Undefined == 2 * MaxVal + 2
Written == (0 .. MaxVal) \cup {NaN}

\* Arrays a ref can hold: the first two are distinct arrays with the same
\* elements.  Arr(i) is the i-th of them, Arr(Len(Arrays) + i) a deepClone
\* of it: a new array with the same elements.
Arrays == << <<0>>, <<0>>, <<0, 1>>, <<1>> >>
Arr(i) == Undefined + i
ArrayVals == {Arr(i) : i \in 1 .. 2 * Len(Arrays)}
IsArray(v) == v \in ArrayVals
Elems(v) == Arrays[((v - Undefined - 1) % Len(Arrays)) + 1]
\* obj = reactive({ user: { name: 0 } }): the proxy, and the deepClone of it
\* taken when obj.user.name was p.
Obj == Undefined + 2 * Len(Arrays) + 1
Snap(p) == Obj + 1 + p
\* isObject
IsObject(v) == v > Undefined
\* No own property: a key the plain object does not have, a hole of the array.
Hole == Snap(Undefined) + 1

\* The comparison === in place of Object.is: NaN differs from itself.
StrictEquals(a, b) == a = b /\ a # NaN

\* Object.is on the modelled numbers: NaN is NaN; the codes are distinct, so
\* it is equality of codes.
ObjectIs(a, b) == a = b

\* JavaScript a + b on the modelled numbers.
JsAdd(a, b) == IF a = NaN \/ b = NaN THEN NaN ELSE a + b

\* a.value + 1 on a ref written by callers, wrapping at MaxVal so that the
\* model stays finite; NaN + 1 is NaN.
JsInc(a) == IF a = NaN THEN NaN ELSE (a + 1) % (MaxVal + 1)

\* ------------------------------------------------------------- the objects
\* Two refs (const a = ref(0), b = ref(0)), one computed ref
\* (computed(() => a.value + b.value)) and two effect() slots.
Cells == {1, 2}
Comps == {1}
UEff == {1, 2}
\* The scopes the application has created with createEffectScope().
Scopes == {1, 2}
\* The effect function behind computed k (createComputedEffect).
Runner(k) == Cardinality(UEff) + k
Eff == UEff \cup {Runner(k) : k \in Comps}
\* Keys of targetMap: (ref c, 'value') and (computed k, 'value').
CellKey(c) == c
CompKey(k) == Cardinality(Cells) + k
\* The keys of the reactive object: (obj, "user") and (obj.user, "name").
UserKey == Cardinality(Cells) + Cardinality(Comps) + 1
NameKey == Cardinality(Cells) + Cardinality(Comps) + 2
\* The keys of plain = reactive({ k: 0 }): (plain, "k") and (plain, 'keys').
PlainKey == NameKey + 1
PlainKeysKey == NameKey + 2
\* The keys of list = reactive([1, 0]): (list, 'length'), (list, 'keys') and
\* (list, "0"), (list, "1"), ...
LengthKey == NameKey + 3
ListKeysKey == NameKey + 4
IndexKey(i) == NameKey + 5 + i
Indices == 0 .. MaxLen - 1
Keys == {CellKey(c) : c \in Cells} \cup {CompKey(k) : k \in Comps} \cup {UserKey, NameKey}
          \cup {PlainKey, PlainKeysKey, LengthKey, ListKeysKey} \cup {IndexKey(i) : i \in Indices}

\* ------------------------------------------------- callbacks of the caller
\* The functions a caller passes in (effect bodies, batch functions) are
\* straight-line programs over these instructions.
I(op, x, y) == [op |-> op, x |-> x, y |-> y]
Rd(c) == I("rd", c, 0)          \* a.value                 (read of ref c)
Wr(c, v) == I("wr", c, v)       \* a.value = v
Inc(c) == I("inc", c, 0)        \* a.value = a.value + 1
Rc(k) == I("rc", k, 0)          \* sum.value               (read of computed k)
StopOther == I("stopOther", 0, 0) \* the stop handle of the other effect
ThIf(c) == I("thIf", c, 0)      \* if (a.value === 1) throw new Error()
RdIf(c, d) == I("rdIf", c, d)   \* if (a.value === 0) b.value
Gk == I("gk", 0, 0)             \* plain.k
Ok == I("ok", 0, 0)             \* Object.keys(plain)
Ai(i) == I("ai", i, 0)          \* list[i]
Al == I("al", 0, 0)             \* list.length
Ak == I("ak", 0, 0)             \* Object.keys(list)
Cl == I("cl", 0, 0)             \* clearReactivityState()
ClIf(c) == I("clIf", c, 0)      \* if (a.value === 1) clearReactivityState()
Th == I("th", 0, 0)             \* throw new Error()
Bt(i) == I("bt", i, 0)          \* batch(fn_i)
Tc(i) == I("tc", i, 0)          \* try { batch(fn_i) } catch {}
Fl == I("fl", 0, 0)             \* flushUpdates()
Nw(v) == I("nw", 0, v)          \* obj.user.name = v
Wb == I("wb", 0, 0)             \* the function watch() passes to effect()
Ce(e, b, o) == I("ce", e, <<b, o>>) \* effect(EffectBodies[b], o ? {scope: o} : undefined)
Ss(sc) == I("ss", sc, 0)        \* scope.stop()
Rn(sc, i) == I("rn", sc, i)     \* scope.run(fn_i)
Rt(sc, i) == I("rt", sc, i)     \* try { scope.run(fn_i) } catch {}
Wt == I("wt", 1, 0)             \* watch(a, (v, old, onCleanup) => onCleanup(() => {}))

\* The bodies effect() is called with.  ret: the body returns a cleanup
\* function.
EffectBodies ==
  << [code |-> <<Rd(1)>>, ret |-> TRUE],
     [code |-> <<Rd(1), Rd(2)>>, ret |-> FALSE],
     [code |-> <<Rd(1), Wr(2, 1)>>, ret |-> FALSE],
     [code |-> <<Inc(2)>>, ret |-> FALSE],
     [code |-> <<Rc(1)>>, ret |-> FALSE],
     [code |-> <<Rd(1), Rc(1)>>, ret |-> FALSE],
     [code |-> <<Rd(1), StopOther>>, ret |-> FALSE],
     [code |-> <<ThIf(1)>>, ret |-> FALSE],
     [code |-> <<Rd(1)>>, ret |-> TRUE],
     [code |-> <<RdIf(1, 2)>>, ret |-> FALSE],
     [code |-> <<Rd(1), Inc(2)>>, ret |-> FALSE],
     [code |-> <<Rd(2), Inc(1)>>, ret |-> FALSE],
     [code |-> <<Rd(2), Wr(1, 1)>>, ret |-> FALSE],
     [code |-> <<Gk>>, ret |-> FALSE],
     [code |-> <<Ok>>, ret |-> FALSE],
     [code |-> <<Ai(0)>>, ret |-> FALSE],
     [code |-> <<Ak>>, ret |-> FALSE],
     [code |-> <<Al, Ai(0)>>, ret |-> FALSE],
     [code |-> <<Ai(0), Ai(1)>>, ret |-> FALSE],
     [code |-> <<Rd(1), Cl>>, ret |-> FALSE],
     [code |-> <<ClIf(2)>>, ret |-> FALSE],
     [code |-> <<Wb>>, ret |-> FALSE] >>
\* The bodies whose cleanup function throws: () => { throw new Error() }.
ThrowingCleanups == {9}
\* The body of the effect watch() creates.
WatchBody == Len(EffectBodies)

\* The functions batch() is called with.
BatchFns ==
  << <<Inc(1)>>,
     <<Inc(1), Inc(2)>>,
     <<Inc(1), Inc(1)>>,
     <<Inc(2), Th>>,
     <<Inc(1), Bt(1)>>,
     <<Inc(1), Fl, Inc(2)>>,
     <<Tc(4), Bt(1)>>,
     <<Inc(1), Rc(1)>>,
     <<Nw(1), Nw(NaN)>>,
     <<Inc(1), Cl, Inc(2)>> >>

\* The functions scope.run() is called with.
ScopeFns ==
  << <<Ce(1, 1, 0)>>,
     <<Ce(2, 1, 0)>>,
     <<Ce(1, 1, 0), Rn(2, 2)>>,
     <<Ss(1), Ce(1, 1, 0)>>,
     <<Ce(1, 9, 0), Ce(2, 1, 0)>>,
     <<Ce(1, 1, 2)>>,
     <<Rt(2, 8), Ce(1, 1, 0)>>,
     <<Ce(2, 1, 0), Th>>,
     <<Wt>> >>

\* The applications explored.  Each is the code of one caller: the body and
\* the scheduler option of its first and of its second effect() call, the
\* functions it passes to batch(), and whether it reads the computed ref and
\* calls flushUpdates() directly.
App(b1, s1, b2, s2, fns, comp, fl) ==
  [b1 |-> b1, s1 |-> s1, b2 |-> b2, s2 |-> s2, fns |-> fns, comp |-> comp, fl |-> fl]
Apps ==
  << App(1, FALSE, 2, FALSE, {1, 2, 3, 5}, FALSE, FALSE),
     App(1, TRUE, 1, FALSE, {1}, FALSE, FALSE),
     App(3, FALSE, 2, FALSE, {1, 2}, FALSE, FALSE),
     App(4, FALSE, 2, FALSE, {2}, FALSE, FALSE),
     App(5, FALSE, 1, FALSE, {1, 8}, TRUE, FALSE),
     App(6, FALSE, 5, TRUE, {1}, TRUE, FALSE),
     App(7, FALSE, 1, FALSE, {1}, FALSE, FALSE),
     App(8, FALSE, 2, FALSE, {1, 4}, FALSE, FALSE),
     App(1, FALSE, 2, FALSE, {1, 6, 7}, FALSE, TRUE),
     App(5, FALSE, 1, FALSE, {1, 6}, TRUE, FALSE),
     App(WatchBody, FALSE, 1, FALSE, {}, FALSE, FALSE),
     App(WatchBody, FALSE, 1, FALSE, {1, 3}, FALSE, FALSE),
     App(WatchBody, FALSE, 1, FALSE, {9}, FALSE, FALSE),
     App(WatchBody, FALSE, 1, FALSE, {6, 9}, FALSE, FALSE),
     App(WatchBody, FALSE, 1, FALSE, {1}, FALSE, FALSE),
     App(5, FALSE, 6, FALSE, {1}, TRUE, FALSE) >>
\* The applications that use effects, refs, a read-only computed and batches.
EngineApps == 1 .. 9
\* The applications whose computed ref has a setter, v => { a.value = v }.
SetterApps == {10, 16}
\* The applications that call watch(source, callback, options) once: the
\* source (a ref, the getter () => a.value + b.value, the reactive object),
\* the options, whether the callback registers a cleanup function and
\* whether arrays are written to the ref.
WatchApp(src, immediate, deep, reg, arrays) ==
  [src |-> src, immediate |-> immediate, deep |-> deep, reg |-> reg, arrays |-> arrays]
WatchApps == (11 .. 15) \cup {41}
\* The one of them whose callback writes the ref it watches: () => { a.value = 0 }
WritingWatches == {41}
\* The applications that use two effect scopes: the calls scope.run(fn_i)
\* they make (scope, i) and the effects they create outside any run (effect
\* slot, scope option).
ScopeApp(runs, tops) == [runs |-> runs, tops |-> tops]
ScopeApps == (17 .. 23) \cup {40}
\* The one of them that calls watch() inside scope.run.
ScopedWatches == {40}
ScopePrograms ==
  [a \in ScopeApps |->
     CASE a = 17 -> ScopeApp({<<1, 1>>, <<2, 2>>}, {})
       [] a = 18 -> ScopeApp({<<1, 3>>}, {})
       [] a = 19 -> ScopeApp({<<1, 4>>, <<1, 2>>}, {})
       [] a = 20 -> ScopeApp({<<1, 5>>}, {})
       [] a = 21 -> ScopeApp({<<1, 6>>, <<2, 2>>}, {})
       [] a = 22 -> ScopeApp({<<1, 2>>}, {<<1, 0>>, <<1, 1>>})
       [] a = 23 -> ScopeApp({<<1, 7>>, <<2, 8>>}, {})
       [] a = 40 -> ScopeApp({<<1, 9>>}, {})]
\* The applications that create two effects whose reads depend on the values
\* or whose writes are read by each other: the bodies of the first and of
\* the second effect() call.
DepApps == 24 .. 27
\* The applications that use the reactive object plain and the reactive array
\* list: the bodies of their two effects.
ProxyApps == 28 .. 31
\* The applications that call clearReactivityState(): the bodies of their
\* two effects, and the functions they pass to batch().
ResetApps == (33 .. 35) \cup (37 .. 39)
\* Those of them that read the computed ref sum.
ComputedReaders == {35, 39}
ResetFn == Len(BatchFns)
DepPrograms ==
  [a \in DepApps \cup ProxyApps \cup ResetApps |->
     CASE a = 24 -> <<10, 1>>
       [] a = 25 -> <<11, 12>>
       [] a = 26 -> <<3, 13>>
       [] a = 27 -> <<10, 4>>
       [] a = 28 -> <<14, 15>>
       [] a = 29 -> <<16, 17>>
       [] a = 30 -> <<18, 19>>
       [] a = 31 -> <<17, 18>>
       [] a = 33 -> <<1, 2>>
       [] a = 34 -> <<20, 1>>
       [] a = 35 -> <<5, 3>>
       [] a = 37 -> <<21, 3>>
       [] a = 38 -> <<8, 13>>
       [] a = 39 -> <<8, 12>>]
Watches ==
  [a \in WatchApps \cup ScopedWatches |->
     CASE a = 11 -> WatchApp("ref", FALSE, FALSE, TRUE, TRUE)
       [] a = 12 -> WatchApp("ref", TRUE, FALSE, FALSE, FALSE)
       [] a = 13 -> WatchApp("obj", FALSE, FALSE, FALSE, FALSE)
       [] a = 14 -> WatchApp("obj", FALSE, TRUE, TRUE, FALSE)
       [] a = 15 -> WatchApp("getter", FALSE, FALSE, FALSE, FALSE)
       [] a = 40 -> WatchApp("ref", FALSE, FALSE, TRUE, FALSE)
       [] a = 41 -> WatchApp("ref", FALSE, FALSE, FALSE, FALSE)]

\* ------------------------------------------------------------------- state
VARIABLES
  app,              \* the application that drives the engine (index in Apps)
  val,              \* RefImpl._value of each ref
  targetMap,        \* the dep set of each key, in insertion order
  body,             \* the body each effect() slot was created with (0: not yet)
  hasStop,          \* effect() has returned its stop handle to the caller
  isActive,         \* effectFn.isActive
  deps,             \* effectFn.deps: the dep sets (by key) the effect is in
  cleanup,          \* effectFn.cleanup is set
  scheduler,        \* the effect was created with options.scheduler
  job,              \* the caller's scheduler holds a job of the effect
  dirty,            \* ComputedRefImpl._dirty
  cvalue,           \* ComputedRefImpl._value
  result,           \* createComputedEffect: result
  isSetting,        \* ComputedRefImpl._isSetting
  effectStack, activeEffect, shouldTrack,
  updateQueue, scheduledEffects, batchStack, isBatching,
  log,              \* history: the events of the last public call
  stopped,          \* history: the effect's stop() has returned
  depChanged,       \* history: a ref the getter reads changed since it last ran
  readRuns,         \* history: getter runs made by reads since such a change
  cleanupCalls,     \* history: calls made of the function effectFn.cleanup holds
  prop,             \* obj.user.name of the reactive object
  oldValue, isFirstRun, \* watch: the variables of the closure
  pendingCleanup,   \* watch: pendingCleanup is set
  pendingCalls,     \* history: calls made of the function pendingCleanup holds
  scopeActive,      \* EffectScopeImpl._active
  scopeEffects,     \* EffectScopeImpl.effects: the effects whose stop it holds, in insertion order
  activeEffectScope,
  createdIn,        \* history: the scopes that were ambient or passed as option,
                    \* and active, when the effect was created
  fnThrew,          \* history: a function passed to batch() has thrown
  reads,            \* history: the keys the effect's latest run has read
  plain,            \* plain.k of the reactive object plain (Hole: no such key)
  list,             \* the elements of the reactive array list
  deepReactiveMaxDepth, \* config.deepReactiveMaxDepth
  reactiveMap,      \* the keys of reactiveMap: <<n, 0>> the object at nesting depth
                    \* n of tree, <<n, k>> the k-th proxy stacked on it
  fresh,            \* history: clearReactivityState() has been called and track
                    \* has registered no effect since
  heap,             \* the objects deepClone works on: kind, the values held
                    \* (0: a primitive, n: object n), and for an object that
                    \* deepClone created the object it copies (history)
  cloned,           \* the latest deepClone call: argument, result, final map
  cursor            \* the value the application holds: which object of tree,
                    \* the path length it was reached by, proxy or raw, and
                    \* how many proxies are stacked in it

vars == << app, val, targetMap, body, hasStop, isActive, deps, cleanup, scheduler,
           job, dirty, cvalue, result, isSetting, effectStack, activeEffect,
           shouldTrack, updateQueue, scheduledEffects, batchStack, isBatching,
           log, stopped, depChanged, readRuns, cleanupCalls,
           prop, oldValue, isFirstRun, pendingCleanup, pendingCalls,
           scopeActive, scopeEffects, activeEffectScope, createdIn, fnThrew, reads, plain, list,
           deepReactiveMaxDepth, reactiveMap, fresh, heap, cloned, cursor >>

\* The engine state as one record, at the start of a public call.  thrown:
\* an exception is propagating; calls: batch() calls in progress (history).
Cur ==
  [ val |-> val, targetMap |-> targetMap, body |-> body, hasStop |-> hasStop,
    isActive |-> isActive, deps |-> deps, cleanup |-> cleanup,
    scheduler |-> scheduler, job |-> job, dirty |-> dirty, cvalue |-> cvalue,
    result |-> result, isSetting |-> isSetting, effectStack |-> effectStack,
    activeEffect |-> activeEffect, shouldTrack |-> shouldTrack,
    updateQueue |-> updateQueue, scheduledEffects |-> scheduledEffects,
    batchStack |-> batchStack, isBatching |-> isBatching,
    stopped |-> stopped, depChanged |-> depChanged, readRuns |-> readRuns,
    cleanupCalls |-> cleanupCalls, prop |-> prop, oldValue |-> oldValue,
    isFirstRun |-> isFirstRun, pendingCleanup |-> pendingCleanup,
    pendingCalls |-> pendingCalls, scopeActive |-> scopeActive,
    scopeEffects |-> scopeEffects, activeEffectScope |-> activeEffectScope,
    createdIn |-> createdIn, fnThrew |-> fnThrew, reads |-> reads,
    plain |-> plain, list |-> list,
    deepReactiveMaxDepth |-> deepReactiveMaxDepth, reactiveMap |-> reactiveMap,
    cursor |-> cursor, fresh |-> fresh, heap |-> heap, cloned |-> cloned,
    log |-> <<>>, thrown |-> FALSE, calls |-> 0 ]

\* ----------------------------------------------------------------- history
\* An event with the context it happened in: b batch() calls in progress,
\* q isBatching, d the length of effectStack, a activeEffect.
\* The finally blocks setting activeEffect to null whatever the stack holds.
TopLost(stack) == 0
Top(stack) == IF Len(stack) > 0 THEN stack[Len(stack)] ELSE 0
Ev(st, t, x, y, v, s) ==
  [ t |-> t, x |-> x, y |-> y, z |-> 0, v |-> v, s |-> s, u |-> {},
    b |-> st.calls, q |-> st.isBatching, d |-> Len(st.effectStack),
    a |-> st.activeEffect, p |-> Top(st.effectStack),
    k |-> IF batchUpdates /\ st.isBatching THEN st.scheduledEffects
          ELSE {Cardinality(UEff) + j : j \in {c \in Comps : st.dirty[c]}} ]
Note(st, t, x, y, v, s) == [st EXCEPT !.log = Append(@, Ev(st, t, x, y, v, s))]

InSeq(e, q) == \E i \in 1 .. Len(q) : q[i] = e
Without(q, e) == SelectSeq(q, LAMBDA z : z # e)
Range(q) == {q[i] : i \in 1 .. Len(q)}

\* ------------------------------------------------------------- the engine
RECURSIVE Exec(_, _, _, _)
RECURSIVE FanOut(_, _, _, _)
RECURSIVE FlushLoop(_, _, _)
RECURSIVE FlushLoopUncaught(_, _, _)
RECURSIVE Invoke(_, _, _, _)
RECURSIVE Batch(_, _)
RECURSIVE ScopeRun(_, _, _)
RECURSIVE StopAll(_, _, _)
RECURSIVE TriggerAll(_, _, _, _)
RECURSIVE Ascending(_, _)

Throw(st) == [st EXCEPT !.thrown = TRUE]
Pop(stack) == IF Len(stack) > 0 THEN SubSeq(stack, 1, Len(stack) - 1) ELSE stack

\* History of a read of key: the run in progress has read it.
HasRead(st, key) ==
  IF st.activeEffect \in UEff THEN [st EXCEPT !.reads[st.activeEffect] = @ \cup {key}] ELSE st

\* track(target, key)
Tracked(st, key) ==
  LET e == st.activeEffect IN
  IF ~st.shouldTrack \/ e = 0 \/ ~st.isActive[e] THEN st
  ELSE IF InSeq(e, st.targetMap[key]) THEN st
  ELSE [st EXCEPT !.targetMap[key] = Append(@, e), !.deps[e] = Append(@, key),
                  !.fresh = FALSE]
Track(st, key) == Tracked(HasRead(st, key), key)

\* trigger: the effects of dep that are not the running one and not stopped
\* trigger's filter without the test effect !== activeEffect
EffectsToRunAll(st, key) == SelectSeq(st.targetMap[key], LAMBDA e : st.isActive[e])
EffectsToRun(st, key) ==
  SelectSeq(st.targetMap[key], LAMBDA e : e # st.activeEffect /\ st.isActive[e])

\* trigger(target, key); w is the write that caused it (history)
Trigger(st, key, w) == FanOut(st, EffectsToRun(st, key), 1, w)

\* The scheduler of computed k's effect (ComputedRefImpl constructor).
ComputedScheduler(st, k, w) ==
  IF ~st.dirty[k]
  THEN LET s1 == [Note(st, "markDirty", k, w, "", {}) EXCEPT !.dirty[k] = TRUE]
       IN IF ~s1.isSetting[k] THEN Trigger(s1, CompKey(k), w) ELSE s1
  ELSE st

\* A caller's scheduler: it keeps the job it is handed for later.
UserScheduler(st, e, w) == [Note(st, "job", e, w, "", {}) EXCEPT !.job[e] = TRUE]

HasScheduler(st, e) == IF e \in UEff THEN st.scheduler[e] ELSE TRUE

\* trigger, lines 314-327: what is done with one effect of effectsToRun
Dispatch(st, e, w) ==
  IF batchUpdates /\ st.isBatching
  THEN IF e \in st.scheduledEffects THEN st
       ELSE [Note(st, "queue", e, w, "", {}) EXCEPT
               !.updateQueue = IF InSeq(e, @) THEN @ ELSE Append(@, e),
               !.scheduledEffects = @ \cup {e}]
  ELSE IF HasScheduler(st, e)
       THEN IF e \in UEff THEN UserScheduler(st, e, w)
            ELSE ComputedScheduler(st, e - Cardinality(UEff), w)
       ELSE Invoke(st, e, "trigger", w)

FanOut(st, es, i, w) ==
  IF i > Len(es) \/ st.thrown THEN st
  ELSE FanOut(Dispatch(st, es[i], w), es, i + 1, w)

\* cleanupEffect(effectFn)
\* cleanupEffect without dep.delete(effectFn): only the list is emptied.
CleanupKeepsMembership(st, e) == [st EXCEPT !.deps[e] = <<>>]
CleanupEffect(st, e) ==
  [st EXCEPT !.targetMap = [key \in Keys |->
                              IF InSeq(key, st.deps[e]) THEN Without(@[key], e)
                              ELSE @[key]],
             !.deps[e] = <<>>]

\* The getter of computed k, () => a.value + b.value: the refs it reads and
\* its result.
GetterReads(k) == <<1, 2>>
Getter(st, k) == JsAdd(st.val[1], st.val[2])

\* RefImpl / ShallowRefImpl: get value
CellGet(st, c) == Track(st, CellKey(c))

\* The active members of the dep set of a key.
ActiveDeps(st, key) == {e \in Range(st.targetMap[key]) : st.isActive[e]}

\* The "wr" event of a write of v to ref c: y the value written, z the value
\* held, s the active effects of the ref's dep set, v whether the effect of
\* a clean computed ref is among them, u the active effects of the dep set
\* of such a computed ref.
WriteEvent(st, c, v) ==
  [Ev(st, "wr", c, v,
      IF \E k \in Comps : ~st.dirty[k] /\ Runner(k) \in ActiveDeps(st, CellKey(c))
      THEN "clean" ELSE "", ActiveDeps(st, CellKey(c))) EXCEPT
     !.z = st.val[c],
     !.u = UNION {ActiveDeps(st, CompKey(k)) :
                    k \in {j \in Comps : ~st.dirty[j]
                                          /\ Runner(j) \in ActiveDeps(st, CellKey(c))}}]

\* History of computed k: a ref its getter reads has changed since the
\* getter last ran.
MarkChanged(st, c) ==
  [st EXCEPT !.depChanged = [k \in Comps |->
                               IF InSeq(c, GetterReads(k)) THEN TRUE ELSE @[k]],
             !.readRuns = [k \in Comps |->
                             IF InSeq(c, GetterReads(k)) THEN 0 ELSE @[k]]]

\* RefImpl / ShallowRefImpl: set value
CellSet(st, c, v) ==
  LET s0 == [st EXCEPT !.log = Append(@, WriteEvent(st, c, v))]
      w == Len(st.log) + 1
      Return(s1) == IF s1.thrown THEN s1 ELSE Note(s1, "wrEnd", c, w, "", {})
  IN Return(IF ~ObjectIs(st.val[c], v)
            THEN Trigger(MarkChanged([s0 EXCEPT !.val[c] = v], c), CellKey(c), w)
            ELSE s0)

\* createComputedEffect: effectFn (isStopped is never set: ComputedRefImpl
\* does not call _runner.stop)
ComputedEffectFn(st, k, via) ==
  IF Len(st.effectStack) >= MaxStack THEN Throw(Note(st, "overflow", Runner(k), 0, via, {}))
  ELSE
  LET s1 == [Note(st, "getter", k, 0, via, {}) EXCEPT
               !.effectStack = Append(@, Runner(k)), !.activeEffect = Runner(k)]
      Finally(s2) ==
        Note([s2 EXCEPT !.result[k] = Getter(s2, k), !.depChanged[k] = FALSE,
                        !.readRuns[k] = IF via = "read" /\ @ < 2 THEN @ + 1 ELSE @,
                        !.effectStack = Pop(@), !.activeEffect = Top(Pop(s2.effectStack))],
             "getterEnd", k, 0, via, {})
  IN Finally(CellGet(CellGet(s1, GetterReads(k)[1]), GetterReads(k)[2]))

\* ComputedRefImpl: get value.  The "cget" event records the value returned
\* and the getter's result on the refs as they are at the return.
ComputedGet(st, k) ==
  LET Store(r) == IF r.thrown THEN r
                  ELSE [r EXCEPT !.cvalue[k] = r.result[k], !.dirty[k] = FALSE]
      Return(s2) ==
        IF s2.thrown THEN s2
        ELSE [s2 EXCEPT !.log = Append(@, [Ev(s2, "cget", k, s2.cvalue[k], "", {Getter(s2, k)})
                                             EXCEPT !.z = IF s2.depChanged[k] THEN 1 ELSE 0])]
      Read(s1) == Return(IF s1.dirty[k] THEN Store(ComputedEffectFn(s1, k, "read")) ELSE s1)
  IN Read(Track(st, CompKey(k)))

\* History of effectFn.cleanup(): one more call of the function held; the
\* "cleanup" event just logged records how many it has had (y).
Called(st, e) ==
  [st EXCEPT !.cleanupCalls[e] = IF @ < 2 THEN @ + 1 ELSE @,
             !.log[Len(st.log)].y = IF st.cleanupCalls[e] < 2 THEN st.cleanupCalls[e] + 1 ELSE 2,
             !.thrown = @ \/ st.body[e] \in ThrowingCleanups]

\* The setter of computed k: v => { a.value = v }
Setter(st, k, v) == CellSet(st, GetterReads(k)[1], v)

\* ComputedRefImpl: set value, of a computed ref that has a setter
ComputedSet(st, k, v) ==
  LET Finally(s2) == [s2 EXCEPT !.isSetting[k] = FALSE]
      Notify(s1) == IF s1.thrown THEN s1
                    ELSE Trigger([s1 EXCEPT !.dirty[k] = TRUE], CompKey(k), 0)
  IN Note(Finally(Notify(Setter([Note(st, "cset", k, v, "", ActiveDeps(st, CompKey(k)))
                                   EXCEPT !.isSetting[k] = TRUE], k, v))),
          "csetEnd", k, 0, "", {})

\* effect(): stop, lines 634-648: what it does to an effect that is active
StopActive(st, e) ==
  LET s1 == [CleanupEffect(st, e) EXCEPT !.isActive[e] = FALSE]
      Delete(s2) == IF s2.thrown THEN s2
                    ELSE [s2 EXCEPT !.updateQueue = Without(@, e), !.scheduledEffects = @ \ {e}]
  IN Delete(IF s1.cleanup[e] THEN Called(Note(s1, "cleanup", e, 0, "stop", {}), e) ELSE s1)

\* stop without its guard on isActive: every call does the work of the first.
StopUnguarded(st, e) ==
  [Note(StopActive(Note(st, "stop", e, 1, "", {}), e), "stopEnd", e, 0, "", {})
     EXCEPT !.stopped[e] = IF @ < 2 THEN @ + 1 ELSE @]

\* effect(): stop
Stop(st, e) ==
  LET s0 == Note(st, "stop", e, IF st.isActive[e] THEN 1 ELSE 0, "", {})
      s1 == IF st.isActive[e] THEN StopActive(s0, e) ELSE s0
  IN [Note(s1, "stopEnd", e, 0, "", {}) EXCEPT !.stopped[e] = IF @ < 2 THEN @ + 1 ELSE @]

\* effect(): effectFn
EffectFn(st, e, via, w) ==
  IF Len(st.effectStack) >= MaxStack THEN Throw(Note(st, "overflow", e, 0, via, {}))
  ELSE
  LET Cleared(s) == IF s.thrown THEN s
                    ELSE [s EXCEPT !.cleanup[e] = FALSE, !.cleanupCalls[e] = 0]
      s0 == IF st.cleanup[e]
            THEN Cleared(Called(Note(st, "cleanup", e, 0, "run", {}), e))
            ELSE st
      s1 == [Note(s0, "run", e, w, via, s0.reads[e]) EXCEPT
               !.effectStack = Append(@, e), !.activeEffect = e, !.reads[e] = {}]
      Finally(s2) ==
        Note([s2 EXCEPT !.cleanup[e] = IF ~s2.thrown /\ EffectBodies[st.body[e]].ret
                                       THEN TRUE ELSE @,
                        !.effectStack = Pop(@), !.activeEffect = Top(Pop(s2.effectStack))],
             "runEnd", e, IF s2.thrown THEN 1 ELSE 0, via, {})
  IN IF s0.thrown THEN s0 ELSE Finally(Exec(s1, EffectBodies[st.body[e]].code, 1, e))

\* effect(): the call of an effect function
Invoke(st, e, via, w) ==
  IF e \in UEff THEN EffectFn(st, e, via, w)
  ELSE ComputedEffectFn(st, e - Cardinality(UEff), via)

\* flushBatch's loop without its try/catch: the first exception ends it.
FlushLoopUncaught(st, es, i) ==
  IF i > Len(es) \/ st.thrown THEN st
  ELSE FlushLoopUncaught(Invoke(st, es[i], "flush", 0), es, i + 1)

\* flushBatch
FlushLoop(st, es, i) ==
  IF i > Len(es) THEN st
  ELSE LET Catch(r) == IF r.thrown
                        THEN [Note(r, "caught", es[i], 0, "", {}) EXCEPT !.thrown = FALSE]
                        ELSE r
       IN FlushLoop(Catch(Invoke(st, es[i], "flush", 0)), es, i + 1)

FlushBatch(st, via) ==
  LET s1 == [st EXCEPT !.isBatching = FALSE, !.batchStack = 0,
                       !.updateQueue = <<>>, !.scheduledEffects = {}]
  IN Note(FlushLoop(Note(s1, "flush", 0, 0, via, Range(st.updateQueue)),
                    st.updateQueue, 1), "flushEnd", 0, 0, via, {})

\* flushUpdates
FlushUpdates(st) == IF st.isBatching THEN FlushBatch(st, "flushUpdates") ELSE st

\* batch(fn) with fn = BatchFns[i]
Batch(st, i) ==
  LET wasBatching == st.isBatching
      s1 == [Note(st, "bin", i, 0, "", {}) EXCEPT
               !.batchStack = @ + 1, !.isBatching = TRUE, !.calls = @ + 1]
      Flush(s3) == IF s3.batchStack = 0 /\ ~wasBatching THEN FlushBatch(s3, "batch") ELSE s3
      Return(s4) == Note([s4 EXCEPT !.calls = @ - 1], "bout", i, 0, "", {})
      After(s2) ==
        IF s2.thrown
        THEN Note([s2 EXCEPT !.batchStack = 0, !.isBatching = FALSE,
                             !.updateQueue = <<>>, !.scheduledEffects = {},
                             !.calls = @ - 1, !.fnThrew = TRUE],
                  "bthrow", i, 0, "", Range(s2.updateQueue))
        ELSE Return(Flush([Note(s2, "fnret", i, 0, "", {}) EXCEPT !.batchStack = @ - 1]))
  IN After(Exec(s1, BatchFns[i], 1, 0))

\* The other effect() slot, for a body that holds its stop handle.
Other(e) == CHOOSE o \in UEff : o # e

\* ------------------------------------------------------------------ watch
\* The reactive object's set trap for obj.user.name = v; the read of obj.user
\* on the way goes through the get trap.
NestedSet(st, v) ==
  LET s0 == Track(st, UserKey)
      s1 == [s0 EXCEPT !.log = Append(@, [Ev(s0, "nw", 0, v, "", ActiveDeps(s0, NameKey))
                                            EXCEPT !.z = s0.prop])]
      w == Len(s0.log) + 1
      Return(s2) == IF s2.thrown THEN s2 ELSE Note(s2, "nwEnd", 0, w, "", {})
  IN Return(IF ObjectIs(st.prop, v) THEN s1
            ELSE Trigger([s1 EXCEPT !.prop = v], NameKey, w))

\* The content of the reactive object or of a copy of it: user.name.
Content(st, v) == IF v = Obj THEN st.prop ELSE v - Obj - 1
\* deepEqual; leaves are compared with ===.
DeepEqual(st, a, b) ==
  IF a = b THEN TRUE
  ELSE IF a = Undefined \/ b = Undefined THEN FALSE
  ELSE IF ~IsObject(a) \/ ~IsObject(b) THEN FALSE
  ELSE IF IsArray(a) /\ IsArray(b)
    THEN /\ Len(Elems(a)) = Len(Elems(b))
         /\ \A i \in 1 .. Len(Elems(a)) : StrictEquals(Elems(a)[i], Elems(b)[i])
  ELSE IF IsArray(a) \/ IsArray(b) THEN FALSE
  ELSE StrictEquals(Content(st, a), Content(st, b))
\* deepClone: primitives as they are, a new array, a new plain object.
DeepClone(st, v) ==
  IF IsArray(v) THEN Arr(Len(Arrays) + ((v - Undefined - 1) % Len(Arrays)) + 1)
  ELSE IF IsObject(v) THEN Snap(Content(st, v))
  ELSE v
\* traverse: reading every property of the reactive object through its proxy
\* tracks its keys; an array held by a ref is a plain array.
Traverse(st, v) == IF v = Obj THEN Track(Track(st, UserKey), NameKey) ELSE st
\* getSourceValue: the value, and the state its reads leave.
SourceValue(st, src) ==
  CASE src = "ref" -> st.val[1]
    [] src = "getter" -> JsAdd(st.val[1], st.val[2])
    [] src = "obj" -> Obj
GetSourceValue(st, src) ==
  CASE src = "ref" -> CellGet(st, 1)
    [] src = "getter" -> CellGet(CellGet(st, 1), 2)
    [] src = "obj" -> st
\* oldValue[idx] of the array old: undefined beyond its end.
At(old, idx) == IF idx <= Len(Elems(old)) THEN Elems(old)[idx] ELSE Undefined
\* hasChanged of the function watch() passes to effect()
HasChanged(st, old, new, deep) ==
  IF IsArray(new) /\ IsArray(old)
  THEN \E idx \in 1 .. Len(Elems(new)) :
         IF deep THEN ~DeepEqual(st, Elems(new)[idx], At(old, idx))
         ELSE ~ObjectIs(Elems(new)[idx], At(old, idx))
  ELSE IF deep THEN ~DeepEqual(st, old, new) ELSE ~ObjectIs(old, new)
\* The cleanup function pendingCleanup holds is called.
PendingCalled(st) ==
  LET n == IF st.pendingCalls < 2 THEN st.pendingCalls + 1 ELSE 2
  IN [Note(st, "wcleanup", 1, n, "", {}) EXCEPT !.pendingCalls = n]
\* callback(new, old, registerCleanup)
Callback(st, new, old) ==
  LET s1 == [st EXCEPT !.log = Append(@, [Ev(st, "cb", 1, new, "", {}) EXCEPT !.z = old])]
      s2 == IF Watches[app].reg THEN [s1 EXCEPT !.pendingCleanup = TRUE, !.pendingCalls = 0]
            ELSE s1
  IN IF app \in WritingWatches THEN CellSet(s2, 1, 0) ELSE s2
\* The function watch() passes to effect().
WatchEffect(st) ==
  LET w == Watches[app]
      new == SourceValue(st, w.src)
      Keep(s) == [s EXCEPT !.oldValue = IF w.deep THEN DeepClone(s, new) ELSE new]
      Discard(s) == IF s.pendingCleanup
                    THEN [PendingCalled(s) EXCEPT !.pendingCleanup = FALSE]
                    ELSE s
      Compare(s) ==
        IF s.isFirstRun
        THEN [Keep(IF w.immediate THEN Callback(s, new, Undefined) ELSE s)
                EXCEPT !.isFirstRun = FALSE]
        ELSE IF HasChanged(s, s.oldValue, new, w.deep)
        THEN Keep(Callback(Discard(s), new, s.oldValue))
        ELSE s
      Eval(s) == [s EXCEPT !.log = Append(@, [Ev(s, "eval", 1, new,
                                                 IF s.isFirstRun THEN "first" ELSE "again", {})
                                               EXCEPT !.z = s.oldValue])]
      Read(s) == IF w.deep /\ IsObject(new) THEN Traverse(s, new) ELSE s
  IN Compare(Eval(Read(GetSourceValue(st, w.src))))
\* The stop handle watch() returns.
WatchStop(st) ==
  LET After(s) == IF s.pendingCleanup THEN PendingCalled(s) ELSE s
  IN After(Stop(st, 1))

\* A registration that does not test scope.active.
RegisterAlways(st, e, sc) ==
  IF sc # 0
  THEN [st EXCEPT !.scopeEffects[sc] = IF InSeq(e, @) THEN @ ELSE Append(@, e),
                  !.createdIn[e] = @ \cup {sc}]
  ELSE st
\* effect(): scope.effects.add(stop), if the scope is given and active
Register(st, e, sc) ==
  IF sc # 0 /\ st.scopeActive[sc]
  THEN [st EXCEPT !.scopeEffects[sc] = IF InSeq(e, @) THEN @ ELSE Append(@, e),
                  !.createdIn[e] = @ \cup {sc}]
  ELSE st
\* stop = effect(EffectBodies[b], {scheduler: s ? ... : undefined, scope: o})
EffectIn(st, e, b, s, o) ==
  LET s0 == [st EXCEPT
               !.log = Append(@, [Ev(st, "effect", e, b, "", {sc \in Scopes : st.scopeActive[sc]})
                                    EXCEPT !.z = st.activeEffectScope, !.u = {o} \ {0}]),
               !.body[e] = b, !.isActive[e] = TRUE, !.cleanup[e] = FALSE,
               !.deps[e] = <<>>, !.scheduler[e] = s, !.createdIn[e] = {}]
      Return(r) == [r EXCEPT !.hasStop[e] = ~r.thrown]
  IN Return(EffectFn(Register(Register(s0, e, s0.activeEffectScope), e, o), e, "create", 0))
\* stop = effect(EffectBodies[b], s ? {scheduler} : undefined)
Effect(st, e, b, s) == EffectIn(st, e, b, s, 0)

\* EffectScopeImpl.stop: effects.forEach(stop => stop())
StopAll(st, es, i) ==
  IF i > Len(es) \/ st.thrown THEN st
  ELSE StopAll(Stop(st, es[i]), es, i + 1)
\* EffectScopeImpl.stop
ScopeStop(st, sc) ==
  IF ~st.scopeActive[sc] THEN Note(st, "inactive", sc, 0, "stop", {})
  ELSE LET Clear(r) == IF r.thrown THEN r
                       ELSE Note([r EXCEPT !.scopeEffects[sc] = <<>>], "scopeStopped", sc, 0, "", {})
       IN Clear(StopAll([st EXCEPT !.scopeActive[sc] = FALSE], st.scopeEffects[sc], 1))
\* EffectScopeImpl.run(ScopeFns[i])
ScopeRun(st, sc, i) ==
  IF ~st.scopeActive[sc] THEN Note(st, "inactive", sc, 0, "run", {})
  ELSE LET parentScope == st.activeEffectScope
           Restored(r) == [r EXCEPT !.activeEffectScope = parentScope]
           Finally(r) == [r EXCEPT !.log = Append(@, [Ev(r, "fnEnd", sc, IF r.thrown THEN 1 ELSE 0, "", {})
                                                       EXCEPT !.z = r.activeEffectScope])]
           Enter(s1) == [s1 EXCEPT !.log = Append(@, [Ev(s1, "fn", sc, i, "", {})
                                                       EXCEPT !.z = parentScope]),
                                   !.activeEffectScope = sc]
       IN Finally(Restored(Exec(Enter(st), ScopeFns[i], 1, 0)))

\* --------------------------------------------------- reactive object, array
\* objectHandlers.get, of a key that holds a primitive
PlainGet(st) == Track(st, PlainKey)
\* objectHandlers.ownKeys
PlainOwnKeys(st) == Track(st, PlainKeysKey)
\* target[key]: undefined for a key that is not there
Held(v) == IF v = Hole THEN Undefined ELSE v
\* objectHandlers.set: plain.k = v
PlainSet(st, v) ==
  LET s0 == [st EXCEPT !.log = Append(@, [Ev(st, "pset", 1, v, "", ActiveDeps(st, PlainKey))
                                            EXCEPT !.z = st.plain, !.u = ActiveDeps(st, PlainKeysKey)])]
      w == Len(st.log) + 1
  IN IF ObjectIs(Held(st.plain), v) THEN s0
     ELSE Trigger([s0 EXCEPT !.plain = v], PlainKey, w)
\* objectHandlers.deleteProperty: delete plain.k
PlainDelete(st) ==
  LET hadKey == st.plain # Hole
      s0 == [st EXCEPT !.log = Append(@, [Ev(st, "del", 1, 0, "", ActiveDeps(st, PlainKey))
                                            EXCEPT !.z = IF hadKey THEN 1 ELSE 0,
                                                   !.u = ActiveDeps(st, PlainKeysKey)])]
      w == Len(st.log) + 1
  IN IF hadKey THEN Trigger([s0 EXCEPT !.plain = Hole], PlainKey, w) ELSE s0

\* arrayHandlers.get, of 'length' or of an index that holds a primitive
ListGet(st, key) == Track(st, key)
\* arrayHandlers.ownKeys
ListOwnKeys(st) == Track(st, ListKeysKey)
\* target[i] of the array
ElemAt(a, i) == IF i < Len(a) THEN Held(a[i + 1]) ELSE Undefined
\* Reflect.set(target, i, v): the array grows to hold index i
WithElem(a, i, v) ==
  [j \in 1 .. (IF i < Len(a) THEN Len(a) ELSE i + 1) |->
     IF j = i + 1 THEN v ELSE IF j <= Len(a) THEN a[j] ELSE Hole]
\* trigger(target, key) for each key of a list, in order
TriggerAll(st, keys, i, w) ==
  IF i > Len(keys) \/ st.thrown THEN st
  ELSE TriggerAll(Trigger(st, keys[i], w), keys, i + 1, w)
\* arrayHandlers.set: list[i] = v
ListSet(st, i, v) ==
  LET s0 == [st EXCEPT !.log = Append(@, [Ev(st, "lset", i, v, "", ActiveDeps(st, IndexKey(i)))
                                            EXCEPT !.z = ElemAt(st.list, i)])]
      w == Len(st.log) + 1
  IN IF ObjectIs(ElemAt(st.list, i), v) THEN s0
     ELSE TriggerAll([s0 EXCEPT !.list = WithElem(@, i, v)], <<IndexKey(i), ListKeysKey>>, 1, w)
\* arrayHandlers.deleteProperty: delete list[i]
ListDelete(st, i) ==
  LET hadKey == i < Len(st.list) /\ st.list[i + 1] # Hole
      s0 == [st EXCEPT !.log = Append(@, [Ev(st, "del", 2, i, "", ActiveDeps(st, IndexKey(i)))
                                            EXCEPT !.z = IF hadKey THEN 1 ELSE 0,
                                                   !.u = ActiveDeps(st, ListKeysKey)])]
      w == Len(st.log) + 1
  IN IF hadKey
     THEN TriggerAll([s0 EXCEPT !.list[i + 1] = Hole], <<IndexKey(i), ListKeysKey>>, 1, w)
     ELSE s0

\* Array.prototype.sort on numbers below 10: ascending, holes last.
Ascending(a, v) ==
  IF v > MaxVal THEN SelectSeq(a, LAMBDA z : z = Hole)
  ELSE SelectSeq(a, LAMBDA z : z = v) \o Ascending(a, v + 1)
Sorted(a) == Ascending(a, 0)
\* Array.prototype[method].apply(target, args) for the call made: method and
\* args (splice: <<start, deleteCount>> and then the items inserted).
Applied(a, method, args) ==
  CASE method = "push" -> a \o args
    [] method = "unshift" -> args \o a
    [] method = "pop" -> IF Len(a) = 0 THEN a ELSE SubSeq(a, 1, Len(a) - 1)
    [] method = "shift" -> IF Len(a) = 0 THEN a ELSE Tail(a)
    [] method = "splice" ->
         LET start == IF args[1] > Len(a) THEN Len(a) ELSE args[1]
             count == IF args[2] > Len(a) - start THEN Len(a) - start ELSE args[2]
         IN SubSeq(a, 1, start) \o SubSeq(args, 3, Len(args))
              \o SubSeq(a, start + count + 1, Len(a))
    [] method = "sort" -> Sorted(a)
    [] method = "reverse" -> [j \in 1 .. Len(a) |-> a[Len(a) + 1 - j]]
\* The keys i.toString() for i = from .. from + n - 1
FromTo(from, n) == [j \in 1 .. n |-> IndexKey(from + j - 1)]
\* handleArrayMethodTriggers: the keys it triggers, in order
MethodKeys(target, method, args) ==
  CASE method = "push" -> FromTo(Len(target) - Len(args), Len(args))
    [] method = "unshift" -> FromTo(0, Len(args))
    [] method = "pop" -> <<IndexKey(Len(target))>>
    [] method = "shift" -> <<IndexKey(0)>>
    [] method = "splice" -> FromTo(args[1], args[2]) \o FromTo(args[1], Len(args) - 2)
    [] method = "sort" -> FromTo(0, Len(target))
    [] method = "reverse" -> FromTo(0, Len(target))
\* createArrayMethodHandler: list[method](...args)
ArrayMethod(st, method, args) ==
  LET oldLength == Len(st.list)
      target == Applied(st.list, method, args)
      w == Len(st.log) + 1
      s0 == [Note(st, "method", 0, oldLength, method, {e \in UEff : st.isActive[e]})
               EXCEPT !.list = target, !.shouldTrack = TRUE]
  IN TriggerAll(s0, (IF Len(target) # oldLength THEN <<LengthKey>> ELSE <<>>)
                      \o <<ListKeysKey>> \o MethodKeys(target, method, args), 1, w)

\* ------------------------------------------------------- nested wrapping
\* isReactiveEligible of the value at nesting depth n of tree: the objects
\* are plain objects, the innermost c holds a number.
IsReactiveEligible(n) == n <= MaxDepth
\* config.deepReactiveMaxDepth || 10
DepthLimit(st) ==
  IF st.deepReactiveMaxDepth = 0 THEN DefaultMaxDepth ELSE st.deepReactiveMaxDepth
\* reactive(target, depth) returns a proxy, not target itself
ReturnsProxy(st, n, depth) == ~(depth > DepthLimit(st)) /\ IsReactiveEligible(n)
\* reactive(target, depth), target the object at nesting depth n of tree
Reactive(st, n, depth) ==
  IF ReturnsProxy(st, n, depth) THEN [st EXCEPT !.reactiveMap = @ \cup {<<n, 0>>}] ELSE st
\* reactive(value) of the value the cursor holds, raw or a proxy: the proxy
\* itself is looked up in reactiveMap, and a new proxy is made of it.
Rewrapped(st) ==
  LET c == st.cursor
      wraps == ReturnsProxy(st, c.node, 0)
      level == IF wraps THEN c.level + 1 ELSE c.level
  IN [st EXCEPT !.log = Append(@, [Ev(st, "rewrap", c.node, c.level, "", {}) EXCEPT !.z = level]),
                !.reactiveMap = IF wraps THEN @ \cup {<<c.node, c.level>>} ELSE @,
                !.cursor = [c EXCEPT !.view = level > 0, !.level = level]]
\* The depth argument the get traps pass to reactive(): none, so the default.
TrapDepth(depth) == 0
\* objectHandlers.get of key c on the proxy the cursor holds (no effect is
\* running, so track returns at once)
ProxyGet(st) ==
  LET res == st.cursor.node + 1
      depth == TrapDepth(st.cursor.depth + 1)
      wraps == IsReactiveEligible(res) /\ ReturnsProxy(st, res, depth)
      s0 == [st EXCEPT !.log = Append(@, [Ev(st, "get", st.cursor.depth + 1, DepthLimit(st),
                                             IF IsReactiveEligible(res) THEN "composite"
                                             ELSE "primitive", {})
                                            EXCEPT !.z = IF wraps THEN 1 ELSE 0])]
      s1 == IF IsReactiveEligible(res) THEN Reactive(s0, res, depth) ELSE s0
      \* each proxy of the stack runs the trap on what the one below returned
      Stacked(s2) == IF wraps THEN [s2 EXCEPT !.reactiveMap =
                                      @ \cup {<<res, k>> : k \in 1 .. st.cursor.level - 1}]
                     ELSE s2
  IN [Stacked(s1) EXCEPT !.cursor = [node |-> res, depth |-> st.cursor.depth + 1, view |-> wraps,
                                     level |-> IF wraps THEN st.cursor.level ELSE 0]]
\* value.c of a raw object
RawGet(st) ==
  [Note(st, "rawGet", st.cursor.depth + 1, 0, "", {})
     EXCEPT !.cursor = [node |-> st.cursor.node + 1, depth |-> st.cursor.depth + 1,
                        view |-> FALSE, level |-> 0]]

\* ------------------------------------------------------------------ reset
\* clearReactivityState without its first line: targetMap is kept.
ClearKeepsGraph(st) ==
  Note([st EXCEPT !.reactiveMap = {}, !.updateQueue = <<>>, !.effectStack = <<>>,
                  !.scheduledEffects = {}, !.activeEffect = 0, !.activeEffectScope = 0,
                  !.isBatching = FALSE, !.batchStack = 0, !.shouldTrack = TRUE,
                  !.deepReactiveMaxDepth = DefaultMaxDepth, !.fresh = TRUE],
       "cleared", 0, 0, "", {key \in Keys : st.targetMap[key] # <<>>})
\* clearReactivityState.  The "cleared" event records the keys that had
\* effects in their dep sets.
ClearReactivityState(st) ==
  Note([st EXCEPT !.targetMap = [key \in Keys |-> <<>>],
                  !.reactiveMap = {}, !.updateQueue = <<>>, !.effectStack = <<>>,
                  !.scheduledEffects = {}, !.activeEffect = 0, !.activeEffectScope = 0,
                  !.isBatching = FALSE, !.batchStack = 0, !.shouldTrack = TRUE,
                  !.deepReactiveMaxDepth = DefaultMaxDepth, !.fresh = TRUE],
       "cleared", 0, 0, "", {key \in Keys : st.targetMap[key] # <<>>})

\* The applications that pass options.scheduler to watch(): job => { held = job }
ScheduledWatches == {15}
\* watch(): the scheduler option of its effect() call.  effect(() => {...})
\* is called with no options, whatever opts.scheduler is.
WatchEffectScheduler(opts) == FALSE

\* One instruction of a callback; self is the effect whose body it is (0: none).
Step(st, ins, self) ==
  CASE ins.op = "rd" -> CellGet(st, ins.x)
    [] ins.op = "wr" -> CellSet(st, ins.x, ins.y)
    [] ins.op = "inc" -> LET s1 == CellGet(st, ins.x)
                         IN CellSet(s1, ins.x, JsInc(s1.val[ins.x]))
    [] ins.op = "rc" -> ComputedGet(st, ins.x)
    [] ins.op = "stopOther" -> IF st.hasStop[Other(self)] THEN Stop(st, Other(self)) ELSE st
    [] ins.op = "thIf" -> LET s1 == CellGet(st, ins.x)
                          IN IF s1.val[ins.x] = 1 THEN Throw(s1) ELSE s1
    [] ins.op = "clIf" -> LET s1 == CellGet(st, ins.x)
                          IN IF s1.val[ins.x] = 1 THEN ClearReactivityState(s1) ELSE s1
    [] ins.op = "rdIf" -> LET s1 == CellGet(st, ins.x)
                          IN IF s1.val[ins.x] = 0 THEN CellGet(s1, ins.y) ELSE s1
    [] ins.op = "gk" -> PlainGet(st)
    [] ins.op = "ok" -> PlainOwnKeys(st)
    [] ins.op = "ai" -> ListGet(st, IndexKey(ins.x))
    [] ins.op = "al" -> ListGet(st, LengthKey)
    [] ins.op = "ak" -> ListOwnKeys(st)
    [] ins.op = "cl" -> ClearReactivityState(st)
    [] ins.op = "th" -> Throw(st)
    [] ins.op = "bt" -> Batch(st, ins.x)
    [] ins.op = "tc" -> [Batch(st, ins.x) EXCEPT !.thrown = FALSE]
    [] ins.op = "fl" -> FlushUpdates(st)
    [] ins.op = "nw" -> NestedSet(st, ins.y)
    [] ins.op = "wb" -> WatchEffect(st)
    [] ins.op = "wt" -> EffectIn(Note(st, "watch", ins.x, 0, "", {}), ins.x, WatchBody,
                                 WatchEffectScheduler(FALSE), 0)
    [] ins.op = "ce" -> EffectIn(st, ins.x, ins.y[1], FALSE, ins.y[2])
    [] ins.op = "ss" -> ScopeStop(st, ins.x)
    [] ins.op = "rn" -> ScopeRun(st, ins.x, ins.y)
    [] ins.op = "rt" -> [ScopeRun(st, ins.x, ins.y) EXCEPT !.thrown = FALSE]

Exec(st, prog, i, self) ==
  IF i > Len(prog) \/ st.thrown THEN st
  ELSE Exec(Step(st, prog[i], self), prog, i + 1, self)

\* ------------------------------------------------------- the public calls
\* The state a public call leaves; an exception that reaches the caller is
\* the last event of its history.
Commit(r) ==
  /\ app' = app
  /\ val' = r.val /\ targetMap' = r.targetMap /\ body' = r.body
  /\ hasStop' = r.hasStop /\ isActive' = r.isActive /\ deps' = r.deps
  /\ cleanup' = r.cleanup /\ scheduler' = r.scheduler /\ job' = r.job
  /\ dirty' = r.dirty /\ cvalue' = r.cvalue /\ result' = r.result
  /\ isSetting' = r.isSetting /\ effectStack' = r.effectStack
  /\ activeEffect' = r.activeEffect /\ shouldTrack' = r.shouldTrack
  /\ updateQueue' = r.updateQueue /\ scheduledEffects' = r.scheduledEffects
  /\ batchStack' = r.batchStack /\ isBatching' = r.isBatching
  /\ stopped' = r.stopped /\ depChanged' = r.depChanged /\ readRuns' = r.readRuns
  /\ cleanupCalls' = r.cleanupCalls
  /\ prop' = r.prop /\ oldValue' = r.oldValue /\ isFirstRun' = r.isFirstRun
  /\ pendingCleanup' = r.pendingCleanup /\ pendingCalls' = r.pendingCalls
  /\ scopeActive' = r.scopeActive /\ scopeEffects' = r.scopeEffects
  /\ activeEffectScope' = r.activeEffectScope /\ createdIn' = r.createdIn
  /\ fnThrew' = r.fnThrew /\ reads' = r.reads
  /\ plain' = r.plain /\ list' = r.list
  /\ deepReactiveMaxDepth' = r.deepReactiveMaxDepth /\ reactiveMap' = r.reactiveMap
  /\ cursor' = r.cursor /\ fresh' = r.fresh
  /\ heap' = r.heap /\ cloned' = r.cloned
  /\ log' = IF r.thrown THEN Append(r.log, Ev(r, "uncaught", 0, 0, "", {})) ELSE r.log

\* ------------------------------------------------------------- deepClone
\* The kinds of object deepClone tells apart; a Date and a RegExp hold no
\* references.  A Map is modelled with one entry (slot 1 its key, slot 2
\* its value), the others with two properties, elements or members.
Containers == {"object", "array", "map", "set"}
Leaves == {"date", "regexp"}
Sources == 1 .. MaxNodes
Slots == 1 .. MaxSlots
\* The object graphs an application can pass: every slot holds a primitive
\* or one of the objects, so references can be shared and can form cycles.
\* The members of a Set are distinct.
Shapes ==
  {[kind |-> k, slots |-> sl, origin |-> 0] : k \in Containers, sl \in [Slots -> {0} \cup Sources]}
    \cup {[kind |-> k, slots |-> <<>>, origin |-> 0] : k \in Leaves}
SourceGraphs ==
  {g \in [Sources -> Shapes] :
     \A n \in Sources : g[n].kind = "set" =>
        \A i, j \in Slots : (i # j /\ g[n].slots[i] # 0) => g[n].slots[i] # g[n].slots[j]}
\* The WeakMap of one deepClone call: source object -> its clone (0: no entry)
NoClones == [n \in Sources |-> 0]
\* The application that clones object graphs.
CloneApps == {36}

RECURSIVE deepClone(_, _)
RECURSIVE CloneEach(_, _, _, _)
\* value.forEach(... result[i] = deepClone(item, map) ...), from slot i on;
\* result.add of a Set keeps one of equal members.
CloneEach(st, value, copy, i) ==
  IF i > Len(st.heap[value].slots) THEN st
  ELSE LET s1 == deepClone(st, st.heap[value].slots[i])
           dup == /\ st.heap[value].kind = "set" /\ s1.ret # 0
                  /\ \E j \in 1 .. Len(s1.heap[copy].slots) : s1.heap[copy].slots[j] = s1.ret
       IN CloneEach(IF dup THEN s1 ELSE [s1 EXCEPT !.heap[copy].slots = Append(@, s1.ret)],
                    value, copy, i + 1)
\* deepClone(value, map) on the record [heap, map]; ret is what it returns.
deepClone(st, value) ==
  IF value = 0 THEN [st EXCEPT !.ret = 0]
  ELSE IF st.map[value] # 0 THEN [st EXCEPT !.ret = st.map[value]]
  ELSE LET copy == Len(st.heap) + 1
           made == [st EXCEPT !.heap = Append(@, [kind |-> st.heap[value].kind,
                                                  slots |-> <<>>, origin |-> value])]
       IN IF st.heap[value].kind \in Leaves
          THEN [made EXCEPT !.ret = copy]
          ELSE [CloneEach([made EXCEPT !.map[value] = copy], value, copy, 1)
                  EXCEPT !.ret = copy]

\* The state of the module when it has been loaded.
Boot ==
  /\ val = [c \in Cells |-> 0]
  /\ targetMap = [key \in Keys |-> <<>>]
  /\ body = [e \in UEff |-> 0]
  /\ hasStop = [e \in UEff |-> FALSE]
  /\ isActive = [e \in Eff |-> e \notin UEff]
  /\ deps = [e \in Eff |-> <<>>]
  /\ cleanup = [e \in UEff |-> FALSE]
  /\ scheduler = [e \in UEff |-> FALSE]
  /\ job = [e \in UEff |-> FALSE]
  /\ dirty = [k \in Comps |-> TRUE]
  /\ cvalue = [k \in Comps |-> Undefined]
  /\ result = [k \in Comps |-> Undefined]
  /\ isSetting = [k \in Comps |-> FALSE]
  /\ effectStack = <<>>
  /\ activeEffect = 0
  /\ shouldTrack = TRUE
  /\ updateQueue = <<>>
  /\ scheduledEffects = {}
  /\ batchStack = 0
  /\ isBatching = FALSE
  /\ log = <<>>
  /\ stopped = [e \in UEff |-> 0]
  /\ depChanged = [k \in Comps |-> FALSE]
  /\ readRuns = [k \in Comps |-> 0]
  /\ cleanupCalls = [e \in UEff |-> 0]
  /\ prop = 0
  /\ oldValue = Undefined
  /\ isFirstRun = TRUE
  /\ pendingCleanup = FALSE
  /\ pendingCalls = 0
  /\ scopeActive = [sc \in Scopes |-> TRUE]
  /\ scopeEffects = [sc \in Scopes |-> <<>>]
  /\ activeEffectScope = 0
  /\ createdIn = [e \in UEff |-> {}]
  /\ fnThrew = FALSE
  /\ reads = [e \in UEff |-> {}]
  /\ plain = 0
  /\ list = <<1, 0>>
  /\ deepReactiveMaxDepth = DefaultMaxDepth
  /\ reactiveMap = {}
  /\ fresh = FALSE
  /\ heap \in (IF app \in CloneApps THEN SourceGraphs ELSE {<<>>})
  /\ cloned = [src |-> 0, ret |-> 0, map |-> NoClones]
  /\ cursor = [node |-> 0, depth |-> 0, view |-> FALSE, level |-> 0]

Init == app \in EngineApps /\ Boot


CreateEffect(e, b, s) ==
  /\ body[e] = 0
  /\ \/ e = 1 /\ b = Apps[app].b1 /\ s = Apps[app].s1
     \/ e = 2 /\ body[1] # 0 /\ b = Apps[app].b2 /\ s = Apps[app].s2
  /\ Commit(Effect(Cur, e, b, s))

\* a.value = v
Write(c, v) ==
  /\ c \in Cells
  /\ Commit(CellSet(Note(Cur, "write", c, v, "", {}), c, v))

\* sum.value
ReadComputed(k) ==
  /\ Apps[app].comp
  /\ Commit(ComputedGet(Note(Cur, "read", k, 0, "", {}), k))

\* sum.value = v
SetComputed(k, v) ==
  /\ app \in SetterApps
  /\ Commit(ComputedSet(Note(Cur, "set", k, v, "", {}), k, v))

\* stop()
StopEffect(e) ==
  /\ hasStop[e]
  /\ Commit(Stop(Note(Cur, "stopCall", e, IF isActive[e] THEN 1 ELSE 0, "", {}), e))

\* batch(BatchFns[i])
BatchCall(i) ==
  /\ app \in 1 .. Len(Apps) /\ i \in Apps[app].fns
  /\ Commit(Batch(Note(Cur, "batch", i, 0, "", {}), i))

\* flushUpdates()
FlushUpdatesCall ==
  /\ Apps[app].fl
  /\ Commit(FlushUpdates(Note(Cur, "flushUpdates", 0, 0, "", {})))

\* The caller's scheduler runs the job it holds: () => effect()
RunJob(e) ==
  /\ job[e]
  /\ Commit(EffectFn([Note(Cur, "runJob", e, 0, "", {}) EXCEPT !.job[e] = FALSE],
                     e, "job", 0))

Next ==
  \/ \E e \in UEff, b \in 1 .. Len(EffectBodies), s \in BOOLEAN : CreateEffect(e, b, s)
  \/ \E c \in Cells, v \in Written : Write(c, v)
  \/ \E k \in Comps : ReadComputed(k)
  \/ \E e \in UEff : StopEffect(e)
  \/ \E i \in 1 .. Len(BatchFns) : BatchCall(i)
  \/ FlushUpdatesCall
  \/ \E e \in UEff : RunJob(e)

Spec == Init /\ [][Next]_vars

\* The applications with a settable computed ref.
InitSet == app \in SetterApps /\ Boot
NextSet ==
  \/ \E e \in UEff, b \in 1 .. Len(EffectBodies), s \in BOOLEAN : CreateEffect(e, b, s)
  \/ \E c \in Cells, v \in Written : Write(c, v)
  \/ \E k \in Comps : ReadComputed(k)
  \/ \E k \in Comps, v \in Written : SetComputed(k, v)
  \/ \E e \in UEff : StopEffect(e)
  \/ \E i \in 1 .. Len(BatchFns) : BatchCall(i)
SpecSet == InitSet /\ [][NextSet]_vars

\* watch(source, callback, options)
Watch ==
  /\ app \in WatchApps /\ body[1] = 0
  /\ Commit(Effect(Note(Cur, "watch", 1, 0, "", {}), 1, WatchBody,
                   WatchEffectScheduler(app \in ScheduledWatches)))
\* A write to a ref from outside: a number or, where the application writes
\* them, an array.
WriteRef(c, v) ==
  /\ app \in WatchApps
  /\ v \in Written \/ (Watches[app].arrays /\ v \in {Arr(i) : i \in 1 .. Len(Arrays)})
  /\ Commit(CellSet(Note(Cur, "write", c, v, "", {}), c, v))
\* obj.user.name = v from outside
NestedWrite(v) ==
  /\ app \in WatchApps /\ Watches[app].src = "obj"
  /\ Commit(NestedSet(Note(Cur, "nwrite", 0, v, "", {}), v))
\* A call of the stop handle watch() returned.
StopWatch ==
  /\ app \in WatchApps /\ hasStop[1]
  /\ Commit(WatchStop(Note(Cur, "wstop", 1, 0, "", {})))
InitWatch == app \in WatchApps /\ Boot
NextWatch ==
  \/ Watch
  \/ \E c \in Cells, v \in Written \cup ArrayVals : WriteRef(c, v)
  \/ \E v \in Written : NestedWrite(v)
  \/ StopWatch
  \/ \E i \in 1 .. Len(BatchFns) : BatchCall(i)
SpecWatch == InitWatch /\ [][NextWatch]_vars

\* The effect slots the effect() calls of ScopeFns[i] fill.
Creates(i) ==
  LET Direct(j) == {ScopeFns[j][n].x : n \in {m \in 1 .. Len(ScopeFns[j]) : ScopeFns[j][m].op \in {"ce", "wt"}}}
      Nested(j) == {ScopeFns[j][n].y : n \in {m \in 1 .. Len(ScopeFns[j]) : ScopeFns[j][m].op \in {"rn", "rt"}}}
  IN Direct(i) \cup UNION {Direct(j) : j \in Nested(i)}
\* scope.run(ScopeFns[i])
RunScope(sc, i) ==
  /\ app \in ScopeApps /\ <<sc, i>> \in ScopePrograms[app].runs
  /\ scopeActive[sc] => \A e \in Creates(i) : body[e] = 0
  /\ Commit(ScopeRun(Note(Cur, "srun", sc, IF scopeActive[sc] THEN 1 ELSE 0, "", {}), sc, i))
\* scope.stop()
StopScope(sc) ==
  /\ app \in ScopeApps
  /\ Commit(ScopeStop(Note(Cur, "sstop", sc, IF scopeActive[sc] THEN 1 ELSE 0, "", {}), sc))
\* effect(() => { a.value; return () => {} }, o ? {scope: o} : undefined),
\* called outside any run
CreateScoped(e, o) ==
  /\ app \in ScopeApps /\ <<e, o>> \in ScopePrograms[app].tops
  /\ body[e] = 0
  /\ Commit(EffectIn(Note(Cur, "create", e, o, "", {}), e, 1, FALSE, o))
InitScope == app \in ScopeApps /\ Boot
NextScope ==
  \/ \E sc \in Scopes, i \in 1 .. Len(ScopeFns) : RunScope(sc, i)
  \/ \E sc \in Scopes : StopScope(sc)
  \/ \E e \in UEff, o \in Scopes \cup {0} : CreateScoped(e, o)
  \/ \E c \in Cells, v \in Written : Write(c, v)
SpecScope == InitScope /\ [][NextScope]_vars

\* effect(EffectBodies[b]) of an application of DepApps
CreateDependent(e) ==
  /\ body[e] = 0
  /\ e = 2 => body[1] # 0
  /\ Commit(Effect(Cur, e, DepPrograms[app][e], FALSE))

InitDeps == app \in DepApps /\ Boot
NextDeps ==
  \/ \E e \in UEff : CreateDependent(e)
  \/ \E c \in Cells, v \in Written : Write(c, v)
  \/ \E e \in UEff : StopEffect(e)
SpecDeps == InitDeps /\ [][NextDeps]_vars

\* plain.k = v
SetPlain(v) ==
  /\ v \in Written
  /\ Commit(PlainSet(Note(Cur, "setPlain", 0, v, "", {}), v))
\* delete plain.k
DeletePlain ==
  /\ app \in ProxyApps
  /\ Commit(PlainDelete(Note(Cur, "delete", 1, 0, "", {})))
\* list[i] = v
SetIndex(i, v) ==
  /\ i <= Len(list)
  /\ Commit(ListSet(Note(Cur, "setIndex", i, v, "", {}), i, v))
\* delete list[i]
DeleteIndex(i) ==
  /\ i \in Indices
  /\ Commit(ListDelete(Note(Cur, "delete", 2, i, "", {}), i))
\* list.push(v), list.pop(), list.splice(start, count, ...items), ...
CallMethod(method, args) ==
  /\ Len(Applied(list, method, args)) <= MaxLen
  /\ method = "splice" => args[1] + args[2] <= Len(list)
  /\ Commit(ArrayMethod(Note(Cur, "call", 0, 0, method, {}), method, args))

\* The calls of the mutating methods an application makes.
MethodCalls ==
  {<<m, <<>> >> : m \in {"pop", "shift", "sort", "reverse"}}
    \cup {<<m, <<v>> >> : m \in {"push", "unshift"}, v \in 0 .. MaxVal}
    \cup {<<"splice", <<i, n>> >> : i \in Indices, n \in 0 .. 1}
    \cup {<<"splice", <<i, n, v>> >> : i \in Indices, n \in 0 .. 1, v \in 0 .. MaxVal}

\* setConfig({ deepReactiveMaxDepth: n })
SetConfig(n) ==
  /\ n \in 0 .. MaxDepth
  /\ Commit([Note(Cur, "setConfig", n, 0, "", {}) EXCEPT !.deepReactiveMaxDepth = n])
\* value = reactive(the object at nesting depth n of tree, depth)
Observe(n, depth) ==
  /\ IsReactiveEligible(n)
  /\ Commit([Reactive(Note(Cur, "reactive", n, depth, "", {}), n, depth)
               EXCEPT !.cursor = [node |-> n, depth |-> 0,
                                  view |-> ReturnsProxy(Cur, n, depth),
                                  level |-> IF ReturnsProxy(Cur, n, depth) THEN 1 ELSE 0]])
\* value = reactive(value)
Rewrap ==
  /\ IsReactiveEligible(cursor.node)
  /\ cursor.level < MaxWrap
  /\ Commit(Rewrapped(Note(Cur, "reactiveOfValue", cursor.node, cursor.level, "", {})))
\* value = value.c
Descend ==
  /\ IsReactiveEligible(cursor.node)
  /\ Commit(IF cursor.view THEN ProxyGet(Note(Cur, "descend", cursor.node, 0, "", {}))
            ELSE RawGet(Note(Cur, "descend", cursor.node, 0, "", {})))

\* The application that wraps the nested object tree.
DepthApps == {32}
InitDepth == app \in DepthApps /\ Boot
NextDepth ==
  \/ \E n \in 0 .. MaxDepth : SetConfig(n)
  \/ \E n \in 0 .. MaxDepth, depth \in 0 .. MaxDepth + 1 : Observe(n, depth)
  \/ Descend
  \/ Rewrap
SpecDepth == InitDepth /\ [][NextDepth]_vars

\* sum.value read by an application of ComputedReaders
ReadValue(k) ==
  /\ app \in ComputedReaders
  /\ Commit(ComputedGet(Note(Cur, "read", k, 0, "", {}), k))
\* deepClone(root), once per object graph
CloneCall(root) ==
  /\ app \in CloneApps /\ cloned.src = 0
  /\ LET r == deepClone([heap |-> heap, map |-> NoClones, ret |-> 0], root)
     IN Commit([Note(Cur, "deepClone", root, r.ret, "", {})
                  EXCEPT !.heap = r.heap,
                         !.cloned = [src |-> root, ret |-> r.ret, map |-> r.map]])
InitClone == app \in CloneApps /\ Boot
NextClone == \E root \in Sources : CloneCall(root)
SpecClone == InitClone /\ [][NextClone]_vars

\* clearReactivityState(); the guard bounds the dep sets that the resets
\* leave behind in effectFn.deps.
ClearCall ==
  /\ app \in ResetApps
  /\ \A e \in Eff : Len(deps[e]) <= MaxDeps
  /\ Commit(ClearReactivityState(Note(Cur, "clear", 0, 0, "", {})))
\* batch(BatchFns[ResetFn]) of application 33
BatchReset ==
  /\ app = 33
  /\ Commit(Batch(Note(Cur, "batch", ResetFn, 0, "", {}), ResetFn))
\* reactive(tree) and setConfig({ deepReactiveMaxDepth: 1 }) of application 34
ObserveTree == app = 34 /\ Observe(0, 0)
Reconfigure == app = 34 /\ SetConfig(1)

InitReset == app \in ResetApps /\ Boot
NextReset ==
  \/ \E e \in UEff : CreateDependent(e)
  \/ \E c \in Cells, v \in 0 .. MaxVal : Write(c, v)
  \/ \E k \in Comps : ReadValue(k)
  \/ \E e \in UEff : StopEffect(e)
  \/ BatchReset
  \/ ClearCall
  \/ ObserveTree
  \/ Reconfigure
SpecReset == InitReset /\ [][NextReset]_vars

InitProxy == app \in ProxyApps /\ Boot
NextProxy ==
  \/ \E e \in UEff : CreateDependent(e)
  \/ \E v \in Written : SetPlain(v)
  \/ DeletePlain
  \/ \E i \in Indices, v \in 0 .. MaxVal : SetIndex(i, v)
  \/ \E i \in Indices : DeleteIndex(i)
  \/ \E c \in MethodCalls : CallMethod(c[1], c[2])
  \/ \E e \in UEff : StopEffect(e)
SpecProxy == InitProxy /\ [][NextProxy]_vars

\* ------------------------------------------------------ reading the history
Idx == 1 .. Len(log)
\* The public call the history is of, and whether it returned to its caller.
Call == IF Len(log) > 0 THEN log[1].t ELSE ""
Returned == Len(log) > 0 /\ log[Len(log)].t # "uncaught"
\* Events of kind t about x strictly between positions i and j.
Between(t, x, i, j) == {n \in Idx : i < n /\ n < j /\ log[n].t = t /\ log[n].x = x}
\* A write that changes the stored value, by the equality the ref is
\* specified with (identical numbers are equal, NaN included).
Changing(i) == log[i].t = "wr" /\ log[i].y # log[i].z
\* The write at i returned at j.
WriteSpan(i, j) == log[i].t = "wr" /\ log[j].t = "wrEnd" /\ log[j].y = i

\* The engine's own state (not the history) is left as it was.
EngineUnchanged ==
  UNCHANGED << val, targetMap, body, hasStop, isActive, deps, cleanup, scheduler,
               job, dirty, cvalue, result, isSetting, effectStack, activeEffect,
               shouldTrack, updateQueue, scheduledEffects, batchStack, isBatching >>
\* Events by which an effect is run, queued or handed to its scheduler.
Reaches(n, e) == log[n].x = e /\ log[n].t \in {"run", "queue", "job"}

\* The call's only flushes are those of batch() itself and no batch threw.
NoFlushUpdatesNoThrow ==
  \A n \in Idx : (log[n].t \in {"flush", "bthrow"}) => (log[n].t = "flush" /\ log[n].v = "batch")
\* The call made no nested batch() call.
NoNestedBatch == \A n \in Idx : log[n].t = "bin" => n = 2

\* ---------------------------------------------------------------- claims

\* C1: outside a batch (no batch() call in progress), a ref write that
\* changes the stored value executes every effect that is at that moment an
\* active member of the ref's dep set and has no scheduler exactly once, and
\* these runs have finished when the write returns.  Stated here for the
\* effects other than the one that is running when the write is made (the
\* engine's self-trigger suppression) and for writes that return.
C1_EachDependentRunsOnce ==
  \A i, j \in Idx :
    (WriteSpan(i, j) /\ Changing(i) /\ log[i].b = 0) =>
      \A e \in (log[i].s \cap UEff) \ {log[i].a} :
        ~scheduler[e] =>
          /\ Cardinality(Between("run", e, i, j)) = 1
          /\ Cardinality(Between("runEnd", e, i, j)) = 1

\* Nothing happens between a write of the value held and its return.
QuietInHistory ==
  \A i \in Idx : (log[i].t = "wr" /\ log[i].y = log[i].z) =>
                   (i < Len(log) /\ log[i + 1].t = "wrEnd" /\ log[i + 1].y = i)
\* C2: a write to a ref of a value identical (Object.is) to the value it
\* holds executes no effect, queues nothing, hands no scheduler a job and
\* leaves the stored value and the dependency graph as they were: in the
\* history nothing happens between such a write and its return, and a
\* caller's write of the held value leaves the engine state unchanged.
C2_EqualWriteIsNoOp ==
  [][ /\ QuietInHistory'
      /\ (Call' = "write" /\ log'[1].y = val[log'[1].x]) =>
           (EngineUnchanged /\ Len(log') = 3) ]_vars
\* A ref that holds NaN and has an active dependent was written NaN.
C2_Witness ==
  \E i \in Idx : /\ log[i].t = "wr" /\ log[i].y = log[i].z /\ log[i].y = NaN
                 /\ log[i].s # {}

\* An effect is run, queued or handed to its scheduler after its stop() has
\* returned only by a write (y) made before the return.
NoReachAfterStop ==
  \A i, n \in Idx :
    (log[i].t = "stopEnd" /\ n > i /\ Reaches(n, log[i].x)) => log[n].y < i
\* C3: stop() of an effect is idempotent (a second call changes nothing and
\* invokes no cleanup), and no change written to a ref after stop() has
\* returned makes the effect's body run: after the return no write runs the
\* effect, queues it or hands its scheduler a job; only a job its scheduler
\* was handed before the stop can still run it.
C3_StopIsFinal ==
  [][ /\ NoReachAfterStop'
      /\ \A e \in UEff :
           /\ (Call' = "stopCall" /\ log'[1].x = e /\ stopped[e] > 0) =>
                (EngineUnchanged /\ \A n \in Idx' : log'[n].t # "cleanup")
           /\ stopped[e] > 0 =>
                \A n \in Idx' : (log'[n].x = e /\ log'[n].t \in {"run", "queue", "job"})
                                  => (log'[n].t = "run" /\ log'[n].v = "job") ]_vars
\* After two stop() calls of one effect a caller's write changed a ref and
\* ran the other effect, which reads that ref as the stopped one did.
C3_Witness ==
  /\ Call = "write" /\ Changing(2)
  /\ \E e, o \in UEff : /\ stopped[e] = 2 /\ stopped[o] = 0
                        /\ Rd(log[2].x) \in Range(EffectBodies[body[e]].code)
                        /\ \E n \in Idx : log[n].t = "run" /\ log[n].x = o

\* C4: for batch(fn) called while no batch is in progress, where fn makes
\* N >= 1 value-changing writes to dependencies of one active effect, the
\* effect's body does not run while fn is running and has run exactly once
\* when batch returns.  Stated for a caller's batch whose fn only writes (no
\* flushUpdates, no nested batch) and for the only active effect.
C4_BatchRunsObserverOnce ==
  (Call = "batch" /\ Returned /\ NoFlushUpdatesNoThrow /\ NoNestedBatch) =>
    \A e \in UEff, m \in Idx :
      ( /\ log[m].t = "fnret"
        /\ \A o \in UEff \ {e} : ~isActive[o]
        /\ \E w \in Idx : w < m /\ Changing(w) /\ e \in log[w].s ) =>
          /\ Between("run", e, 1, m) = {}
          /\ Cardinality(Between("run", e, m, Len(log))) = 1

\* C5: whenever an outermost batch(fn) call returns normally, every
\* still-active effect that was triggered while the batch was active has
\* run, the pending queue is empty and batching is inactive, after any
\* history of calls.
C5_OutermostBatchDrains ==
  (Call = "batch" /\ Returned) =>
    /\ updateQueue = <<>>
    /\ scheduledEffects = {}
    /\ ~isBatching
    /\ \A n \in Idx, e \in UEff :
         (log[n].t = "queue" /\ log[n].x = e /\ isActive[e]) =>
           \E r \in Idx : r > n /\ log[r].t = "run" /\ log[r].x = e

\* C6: nested batch calls behave as one flush: no queued effect runs when
\* an inner batch(fn) returns, the drain is made only by the return of the
\* outermost batch call.  Every run made by the flush of a batch() call is
\* made by the flush of the outermost one.
C6_OnlyOutermostFlushes ==
  \A m, n \in Idx :
    ( /\ log[m].t = "flush" /\ log[m].v = "batch" /\ m < n
      /\ log[n].t = "run" /\ log[n].v = "flush"
      /\ Between("flushEnd", 0, m, n) = {} ) => log[m].b = 1

\* C7: for every batch and every effect, the effect's body runs at most
\* once between the start of the outermost batch call and the end of its
\* flush, and never before the outermost fn has returned, also when several
\* effects are queued and the run of one writes a dependency of another.
\* Stated for a caller's batch in which no flushUpdates is called and no
\* nested batch throws.
C7_AtMostOncePerBatch ==
  (Call = "batch" /\ NoFlushUpdatesNoThrow) =>
    \A e \in UEff :
      /\ Cardinality(Between("run", e, 1, Len(log) + 1)) <= 1
      /\ \A n, m \in Idx : (log[n].t = "run" /\ log[n].x = e
                              /\ log[m].t = "fnret" /\ log[m].b = 1) => n > m

\* C8: after any write that changes a ref the getter of the computed ref
\* reads, made directly or inside a batch, the next read of the computed ref
\* returns the getter's result on the current state, never the value cached
\* before the change: every read returns the getter's result on the refs as
\* they are.
C8_ComputedReadIsFresh ==
  \A n \in Idx : log[n].t = "cget" => log[n].y \in log[n].s

\* C9: whenever a ref the getter reads changes while the computed ref is
\* clean, the computed ref is marked dirty and every active effect that read
\* the computed ref is run again, at once or after the outermost batch
\* closes.  Stated for calls that return, for effects without a scheduler
\* other than the one making the write.
C9_DirtyAndNotify ==
  Returned =>
    \A i \in Idx :
      (Changing(i) /\ log[i].v = "clean") =>
        /\ \E n \in Idx : n > i /\ log[n].t = "markDirty"
        /\ \A e \in (log[i].u \cap UEff) \ {log[i].a} :
             (~scheduler[e] /\ isActive[e]) =>
               \E n \in Idx : n > i /\ log[n].t = "run" /\ log[n].x = e

\* C10: the getter of a computed ref runs at most once across any run of
\* consecutive reads during which no ref it reads changed, and at least once
\* between such a change and the return of the next read.
C10_GetterMemoized ==
  /\ \A k \in Comps : readRuns[k] <= 1
  /\ \A n \in Idx : log[n].t = "cget" => log[n].z = 0

\* C16: every cleanup function returned by a run of an effect is called
\* exactly once, immediately before the body of the effect's next run or at
\* stop() if no further run is made, in every interleaving of triggers,
\* scheduler jobs, batches and stop(): no call of a cleanup function is its
\* second, and the function a stopped effect holds has been called.
C16_CleanupExactlyOnce ==
  /\ \A n \in Idx : log[n].t = "cleanup" => log[n].y = 1
  /\ \A e \in UEff : (stopped[e] > 0 /\ cleanup[e]) => cleanupCalls[e] = 1

\* C17: once stop() of an effect has returned its body is never run again,
\* also when the effect had been triggered before the stop and had not yet
\* run (queued by a batch, held as a job by its scheduler, or waiting in the
\* trigger fan-out or flush in which another effect stopped it).
C17_NeverRunsAfterStop ==
  [][ /\ \A i, n \in Idx' :
           (log'[i].t = "stopEnd" /\ n > i /\ log'[n].t = "run") => log'[n].x # log'[i].x
      /\ \A e \in UEff : stopped[e] > 0 =>
           \A n \in Idx' : ~(log'[n].t = "run" /\ log'[n].x = e) ]_vars

\* C18: an effect created with a scheduler is never re-run by a trigger
\* directly: each trigger that reaches it hands its scheduler exactly one
\* job, and its body runs again only when a handed job is called, in every
\* context of the trigger, a batch included.
C18_SchedulerOwnsReruns ==
  \A e \in UEff : scheduler[e] =>
    /\ \A n \in Idx : (log[n].t = "run" /\ log[n].x = e) => log[n].v \in {"create", "job"}
    /\ \A i, j \in Idx :
         (WriteSpan(i, j) /\ Changing(i) /\ e \in log[i].s /\ log[i].a # e) =>
           /\ Cardinality({n \in Idx : log[n].t = "job" /\ log[n].x = e /\ log[n].y = i}) = 1
           /\ \A n \in Idx : ~(log[n].t = "queue" /\ log[n].x = e)

Callbacks == {n \in Idx : log[n].t = "cb"}
\* The history is of a write from outside that changed ref c while the watch
\* existed, was not stopped, and the engine was not batching.
WatchedWrite(c) ==
  /\ Call = "write" /\ log[1].x = c /\ ~log[1].q
  /\ body[1] = WatchBody /\ stopped[1] = 0
  /\ Changing(2)

\* C12: watch() on a ref invokes the callback inside watch() with (current
\* value, undefined) when immediate is true and not at all otherwise; every
\* later write outside a batch that changes the ref invokes the callback
\* exactly once, with (the value written, the value the ref held before).
C12_WatchOnCell ==
  \A a \in WatchApps : (app = a /\ Watches[a].src = "ref") =>
    /\ Call = "watch" =>
          IF Watches[a].immediate
          THEN /\ Cardinality(Callbacks) = 1
               /\ \A n \in Callbacks : log[n].y = val[1] /\ log[n].z = Undefined
          ELSE Callbacks = {}
    /\ WatchedWrite(1) =>
          /\ Cardinality(Callbacks) = 1
          /\ \A n \in Callbacks : log[n].y = log[2].y /\ log[n].z = log[2].z

\* The history is of a call made while the watch of the reactive object
\* existed and was not stopped.
WatchingObj == body[1] = WatchBody /\ stopped[1] = 0 /\ Watches[app].src = "obj"
\* The writes of the history that changed obj.user.name.
NestedChanges == {n \in Idx : log[n].t = "nw" /\ log[n].y # log[n].z}

\* C13: a watch whose source is the reactive object itself is never called
\* back for a write to a nested property when deep is false, and is called
\* back once for each such write that changes the property when deep is
\* true.  Stated for the writes the application makes itself, outside any
\* batch function.
C13_OncePerNestedWrite ==
  (app \in WatchApps /\ WatchingObj /\ Call = "nwrite") =>
    IF Watches[app].deep THEN Cardinality(Callbacks) = Cardinality(NestedChanges)
    ELSE Callbacks = {}

\* The evaluation of the source at event n of the history was followed by
\* a call of the callback before the next evaluation.
CalledBack(n) ==
  \E m \in Callbacks : m > n /\ \A k \in Idx : (n < k /\ k < m) => log[k].t # "eval"

\* C14: for a watch with deep false on one ref or getter, every evaluation
\* of the source after the first calls the callback if and only if the new
\* value is not Object.is-identical to the retained previous value, arrays
\* included.
C14_ShallowIdentity ==
  \A n \in Idx :
    ( /\ app \in WatchApps /\ ~Watches[app].deep /\ Watches[app].src \in {"ref", "getter"}
      /\ log[n].t = "eval" /\ log[n].v = "again" ) =>
        (CalledBack(n) <=> ~ObjectIs(log[n].y, log[n].z))

\* C15: every cleanup function the watch callback registers is called
\* exactly once, before the next call of the callback or when the stop
\* handle is called, however often the stop handle is called: no call of a
\* registered function is its second, and once the watch is stopped the
\* function still registered has been called.
C15_WatchCleanupOnce ==
  app \in WatchApps =>
    /\ \A n \in Idx : log[n].t = "wcleanup" => log[n].y = 1
    /\ (stopped[1] > 0 /\ pendingCleanup) => pendingCalls = 1

\* The effects that ran in the history.
Ran == {e \in UEff : \E n \in Idx : log[n].t = "run" /\ log[n].x = e}
\* The effects created so far whose body reads ref c.
Readers(c) == {e \in UEff : body[e] # 0 /\ InSeq(Rd(c), EffectBodies[body[e]].code)}
\* The effect is a member of some dep set.
Subscribed(e) == \E key \in Keys : InSeq(e, targetMap[key])

\* C19: scope.stop() stops every effect created in the scope (while it was
\* the ambient scope of a run, or with the scope as option) and no other
\* effect; after it a changing write re-runs exactly the effects reading the
\* ref that were created outside any scope or in scopes not stopped.
C19_ScopeStopsItsOwn ==
  app \in ScopeApps =>
    /\ (Call = "sstop" /\ log[1].y = 1) =>
          \A e \in UEff : body[e] # 0 =>
            IF log[1].x \in createdIn[e]
            THEN ~isActive[e] /\ ~Subscribed(e)
            ELSE \A n \in Idx : ~(log[n].t = "stop" /\ log[n].x = e /\ log[n].y = 1)
    /\ (Call = "write" /\ Changing(2)) =>
          Ran = {e \in Readers(log[1].x) : \A sc \in createdIn[e] : scopeActive[sc]}

\* C20: a stopped scope is terminal: its active flag stays false and its
\* registration set is and stays empty, whatever effects are created; run on
\* it returns without calling the function and without throwing, and stop on
\* it returns without doing anything.
C20_StoppedScopeTerminal ==
  [][ (app \in ScopeApps) =>
        \A sc \in Scopes :
          /\ ~scopeActive'[sc] => scopeEffects'[sc] = <<>>
          /\ ~scopeActive[sc] =>
                /\ ~scopeActive'[sc]
                /\ (Call' \in {"srun", "sstop"} /\ log'[1].x = sc) =>
                      /\ Len(log') = 2 /\ log'[2].t = "inactive"
                      /\ (UNCHANGED << isActive, targetMap, body, cleanup,
                                        activeEffectScope, scopeEffects, val >>) ]_vars

\* The "effect" events of the history: the effect() calls made.
Creations == {n \in Idx : log[n].t = "effect"}
\* The scope that was ambient at the effect() call of event n, if it was
\* active then; the scope passed as option, if it was active then.
AmbientAt(n) == IF log[n].z # 0 /\ log[n].z \in log[n].s THEN {log[n].z} ELSE {}
OptionAt(n) == log[n].u \cap log[n].s
\* Event n ends the run(fn) that event m began.
RunSpan(m, n) ==
  /\ log[m].t = "fn" /\ log[n].t = "fnEnd" /\ m < n /\ log[m].x = log[n].x
  /\ \A k \in Idx : (m < k /\ k < n /\ log[k].t \in {"fn", "fnEnd"}) => log[k].x # log[m].x
\* Each run(fn) leaves ambient the scope that was ambient when it was
\* called, whether fn returned or threw, and none is ambient between calls.
AmbientRestored ==
  /\ activeEffectScope = 0
  /\ \A m, n \in Idx : RunSpan(m, n) => log[n].z = log[m].z
  /\ \A m, n, k \in Idx :
       (RunSpan(m, n) /\ k \in Creations /\ m < k /\ k < n
        /\ \A i, j \in Idx : (RunSpan(i, j) /\ m < i) => ~(i < k /\ k < j)) =>
         log[k].z = log[m].x

\* C21 as stated: run(fn) makes its scope ambient for the duration of fn and
\* restores the scope that was ambient before, whether fn returns or throws;
\* an effect is recorded at its creation into the innermost ambient scope,
\* if that is active, and into no other scope.
C21_OnlyAmbientScopeRecords ==
  app \in ScopeApps =>
    /\ AmbientRestored
    /\ \A n \in Creations : createdIn[log[n].x] = AmbientAt(n)

\* C21, amended: run(fn) makes its scope ambient for the duration of fn and
\* restores the scope that was ambient before, whether fn returns or throws;
\* an effect is recorded at its creation into the innermost ambient scope,
\* if that is active, and into the scope passed as its scope option, if
\* that is active, and into no other scope.
C21_AmbientAndOptionRecord ==
  app \in ScopeApps =>
    /\ AmbientRestored
    /\ \A n \in Creations :
         /\ createdIn[log[n].x] = AmbientAt(n) \cup OptionAt(n)
         /\ \A sc \in Scopes :
              scopeActive[sc] => (InSeq(log[n].x, scopeEffects[sc]) <=> sc \in createdIn[log[n].x])
\* A run of scope 2 nested in a run of scope 1 threw; the effect created
\* after it in the outer function was recorded into scope 1 only.
C21_Witness ==
  /\ app \in ScopeApps
  /\ \E m, n, k \in Idx :
       /\ RunSpan(m, n) /\ log[n].y = 1 /\ log[m].z = 1 /\ log[m].x = 2
       /\ k \in Creations /\ k > n /\ log[k].z = 1
       /\ createdIn[log[k].x] = {1} /\ InSeq(log[k].x, scopeEffects[1])

\* The function of the batch() the application called threw, and no other
\* batch() was called from it.
OnlyBatchThrew ==
  /\ Call = "batch"
  /\ Cardinality({n \in Idx : log[n].t = "bin"}) = 1
  /\ \E n \in Idx : log[n].t = "bthrow"

\* C22: when the function passed to batch() throws, no queued effect is run,
\* the exception reaches the caller of batch(), and from then on batching is
\* inactive: a later write the application makes outside any batch runs the
\* effects that depend on the ref before it returns.
C22_ThrowDiscardsBatch ==
  [][ /\ OnlyBatchThrew' =>
           /\ ~Returned'
           /\ \A n \in Idx' : ~(log'[n].t = "run" /\ log'[n].v = "flush")
           /\ updateQueue' = <<>> /\ ~isBatching'
      /\ (fnThrew /\ Call' = "write" /\ Returned' /\ log'[2].y # log'[2].z) =>
           \A e \in log'[2].s \cap UEff : ~scheduler[e] =>
             \E n \in Idx' : log'[n].t = "run" /\ log'[n].x = e ]_vars

\* C23: while flushBatch drains the queue, an exception thrown by one queued
\* effect is caught there: the batch() or flushUpdates() call that drained
\* returns normally unless the batch function itself threw, and every effect
\* that was in the queue is run by the flush.
C23_FlushIsolatesThrows ==
  /\ \A n \in Idx : log[n].t = "flush" =>
       \A e \in log[n].s : \E m \in Idx :
         /\ m > n /\ log[m].v = "flush"
         /\ \/ log[m].t = "run" /\ log[m].x = e
            \/ \E k \in Comps : e = Runner(k) /\ log[m].t = "getter" /\ log[m].x = k
  /\ (Call = "batch" /\ ~\E n \in Idx : log[n].t = "bthrow") => Returned
  /\ Call = "flushUpdates" => Returned
\* A flush caught the exception of one effect and ran the effect queued
\* after it.
C23_Witness ==
  \E n, m \in Idx :
    /\ log[n].t = "caught" /\ m > n
    /\ log[m].t = "run" /\ log[m].v = "flush" /\ log[m].x # log[n].x
    /\ log[1].t = "batch" /\ Returned

\* C24: an error thrown by the cleanup function of an effect is caught where
\* the cleanup is called: when the cleanup is called for a re-run the body
\* runs next, and when it is called by a stop the call the application made
\* returns normally.
C24_CleanupErrorsCaught ==
  \A n \in Idx : log[n].t = "cleanup" =>
    /\ log[n].v = "run" =>
         n < Len(log) /\ log[n + 1].t = "run" /\ log[n + 1].x = log[n].x
    /\ (log[n].v = "stop" /\ Call \in {"stopCall", "sstop"}) => Returned

\* The drain that starts at the "flush" event m: the runs of the user effects
\* of its queue up to the end of that flush.
Drained(m) ==
  {n \in Idx : /\ n > m /\ log[n].t = "run" /\ log[n].x \in log[m].s
               /\ \A k \in Idx : (m < k /\ k < n) => log[k].t # "flushEnd"}
\* The event that put effect e into the queue drained at m.
QueuedAt(e, m) ==
  CHOOSE q \in Idx : /\ q < m /\ log[q].t = "queue" /\ log[q].x = e
                     /\ \A k \in Idx : (q < k /\ k < m) => ~(log[k].t = "queue" /\ log[k].x = e)

\* C25: the flush of a batch runs the queued effects in the order in which
\* each was first triggered during the batch, and an effect triggered several
\* times is in the queue once and is run once.  Stated for a caller's batch
\* in which no flushUpdates is called and no nested batch throws.
C25_FlushInFirstTriggeredOrder ==
  (Call = "batch" /\ NoFlushUpdatesNoThrow) =>
    \A m \in Idx : log[m].t = "flush" =>
      /\ \A e \in log[m].s \cap UEff :
           /\ Cardinality({q \in Idx : q < m /\ log[q].t = "queue" /\ log[q].x = e}) = 1
           /\ Cardinality({n \in Drained(m) : log[n].x = e}) = 1
      /\ \A n1, n2 \in Drained(m) :
           n1 < n2 => QueuedAt(log[n1].x, m) <= QueuedAt(log[n2].x, m)

\* C26: a change of a ref re-runs an active effect only if the effect's most
\* recent run read that ref: every run started by the trigger of a write is
\* the run of an effect whose run before it read the ref written.
C26_OnlyCurrentReadersRerun ==
  \A n \in Idx :
    (log[n].t = "run" /\ log[n].v = "trigger" /\ log[n].y \in Idx) =>
      (log[log[n].y].t = "wr" => CellKey(log[log[n].y].x) \in log[n].s)

\* C27: an effect whose run is in progress, anywhere on effectStack, is never
\* started again: every run of an effect starts when all its earlier runs of
\* the call have ended, and the nesting of runs never exhausts the call stack.
C27_NoRunWhileInProgress ==
  \A n \in Idx :
    /\ log[n].t = "run" =>
         Cardinality(Between("run", log[n].x, 0, n)) = Cardinality(Between("runEnd", log[n].x, 0, n))
    /\ log[n].t # "overflow"

\* C28: deleting a key that exists, through the proxy of a plain object or of
\* an array, runs the active effects registered on that key and those
\* registered on 'keys'; deleting a key that is not there runs no effect.
C28_DeleteTriggersKeyAndPresence ==
  (Call = "delete" /\ Returned) =>
    /\ log[2].z = 1 =>
         \A e \in (log[2].s \cup log[2].u) \cap UEff :
           \E n \in Idx : log[n].t = "run" /\ log[n].x = e
    /\ log[2].z = 0 => \A n \in Idx : log[n].t # "run"

\* C29: one call of a mutating method of the reactive array, made while no
\* batch is in progress, re-runs each effect at most once, also when the
\* effect depends on several of the keys the call triggers.
C29_OneRunPerMethodCall ==
  Call = "call" =>
    \A e \in UEff : Cardinality(Between("run", e, 0, Len(log) + 1)) <= 1

\* C30: wrapping is limited in depth: a composite the application reaches
\* through a proxy at a nesting depth greater than the configured maximum
\* (deepReactiveMaxDepth) is returned raw, and one at a depth up to the
\* maximum is returned as a proxy.
C30_WrappingIsDepthLimited ==
  \A n \in Idx :
    (log[n].t = "get" /\ log[n].v = "composite") =>
      (log[n].z = 1 <=> log[n].x <= log[n].y)

\* C31: for every eligible target at most one proxy exists: reactive() of a
\* value that is already a proxy returns that proxy, so no proxy is ever a
\* key of reactiveMap with a proxy of its own.
C31_OneProxyPerTarget ==
  /\ \A n \in Idx : (log[n].t = "rewrap" /\ log[n].y >= 1) => log[n].z = log[n].y
  /\ \A key \in reactiveMap : key[2] = 0

\* C32: a watch created with the scheduler option re-evaluates through that
\* scheduler: a write that changes the source does not invoke the callback,
\* the callback is invoked only when the scheduler runs the job it holds.
C32_WatchSchedulerOwnsCallback ==
  (app \in ScheduledWatches /\ Call \in {"write", "batch"}) =>
    \A n \in Idx : log[n].t # "cb"

\* Every global structure of the module is at its default.
Defaults ==
  /\ \A key \in Keys : targetMap[key] = <<>>
  /\ reactiveMap = {} /\ updateQueue = <<>> /\ scheduledEffects = {}
  /\ effectStack = <<>> /\ activeEffect = 0 /\ activeEffectScope = 0
  /\ ~isBatching /\ batchStack = 0 /\ shouldTrack
  /\ deepReactiveMaxDepth = DefaultMaxDepth

Clones == {c \in DOMAIN heap : heap[c].origin # 0}

\* C34: within one deepClone call every source object, of whatever kind, has
\* one clone, distinct from it, and every reference held by a clone leads to
\* the clone of what the source referred to, never to a source object.
C34_OneClonePerSourceObject ==
  cloned.src # 0 =>
    /\ cloned.ret \in Clones /\ heap[cloned.ret].origin = cloned.src
    /\ \A c, d \in Clones : heap[c].origin = heap[d].origin => c = d
    /\ \A c \in Clones : \A i \in 1 .. Len(heap[c].slots) :
          heap[c].slots[i] # 0 => heap[c].slots[i] \in Clones

\* Event n is the entry of an effect or getter run, the exit of one.
Entry(n) == log[n].t \in {"run", "getter"}
Exit(n) == log[n].t \in {"runEnd", "getterEnd"}
\* The entry that the exit at j belongs to: the latest one before j with as
\* many entries as exits in between.
Balanced(i, j) ==
  Cardinality({n \in i + 1 .. j - 1 : Entry(n)}) = Cardinality({n \in i + 1 .. j - 1 : Exit(n)})
EntryOf(j) == CHOOSE i \in 1 .. j - 1 :
  /\ Entry(i) /\ Balanced(i, j)
  /\ \A m \in i + 1 .. j - 1 : ~(Entry(m) /\ Balanced(m, j))
\* The run that exits at j leaves the stack depth and the current effect as
\* it found them.
Restored(j) == log[j].d = log[EntryOf(j)].d /\ log[j].a = log[EntryOf(j)].a
\* clearReactivityState() was called during the run that exits at j.
ResetDuring(j) == \E m \in EntryOf(j) + 1 .. j - 1 : log[m].t = "cleared"

\* C35 as stated: every run of an effect or computed getter, however it
\* exits, leaves the activation stack and the current effect as they were
\* when it began, and the current effect is always the top of the stack.
C35_RunRestoresActivation ==
  /\ activeEffect = Top(effectStack)
  /\ \A j \in Idx : log[j].a = log[j].p /\ (Exit(j) => Restored(j))
\* C35, amended: the same for every run during which clearReactivityState()
\* was not called, and the current effect is always the top of the stack.
C35_RunRestoresUnlessReset ==
  /\ activeEffect = Top(effectStack)
  /\ \A j \in Idx : log[j].a = log[j].p /\ ((Exit(j) /\ ~ResetDuring(j)) => Restored(j))
\* A run started from inside another effect's run ended by a thrown error.
C35_Witness ==
  \E j \in Idx : log[j].t = "runEnd" /\ log[j].y = 1 /\ log[EntryOf(j)].a # 0
                  /\ ~ResetDuring(j)
\* The write at i is made by the running effect to a ref it depends on, and
\* changes the ref.
SelfWrite(i) == Changing(i) /\ log[i].a # 0 /\ log[i].a \in log[i].s
\* The write at i has run effect e, queued it or handed it to its scheduler.
Notified(e, i) ==
  \E n \in Idx : /\ n > i
                 /\ \/ log[n].t \in {"run", "queue", "job"} /\ log[n].x = e /\ log[n].y = i
                    \/ log[n].t = "markDirty" /\ Runner(log[n].x) = e /\ log[n].y = i
                    \/ log[n].t = "overflow" /\ log[n].x = e /\ log[n - 1].t = "wr"
                       /\ n - 1 = i

\* The write at i threw: the error of an effect it ran came back to it.
Threw(i) == ~\E j \in Idx : WriteSpan(i, j)

\* C36 as stated: a write an effect makes during its own run to a ref it
\* depends on neither runs nor queues that effect, and every other active
\* effect of the ref's dep set is run, queued (or is queued already) or
\* handed to its scheduler (or is a computed ref already dirty).
C36_SelfTriggerSuppressed ==
  \A i \in Idx : SelfWrite(i) =>
    /\ ~Notified(log[i].a, i)
    /\ \A e \in log[i].s \ {log[i].a} : e \in log[i].k \/ Notified(e, i)
\* C36, amended: the same, except that the other effects need not all be
\* notified when the write throws the error of one of them.
C36_SuppressedUnlessThrown ==
  \A i \in Idx : SelfWrite(i) =>
    /\ ~Notified(log[i].a, i)
    /\ Threw(i) \/ \A e \in log[i].s \ {log[i].a} : e \in log[i].k \/ Notified(e, i)
\* An effect wrote a ref that it and another active effect depend on.
C36_Witness ==
  \E i \in Idx : SelfWrite(i) /\ log[i].s \ {log[i].a} # {} /\ ~Threw(i)

\* The watch created inside scope.run is recorded in scope sc and has a
\* cleanup pending from its last callback.
ScopedWatchPending(sc) ==
  /\ app \in ScopedWatches /\ body[1] = WatchBody /\ isActive[1]
  /\ scopeActive[sc] /\ InSeq(1, scopeEffects[sc]) /\ pendingCleanup

\* C37: scope.stop() of the scope in whose run a watch was created invokes
\* the cleanup pending from the watch's last callback, exactly once.
C37_ScopeStopRunsPendingCleanup ==
  [][ \A sc \in Scopes :
        (ScopedWatchPending(sc) /\ log'[1].t = "sstop" /\ log'[1].x = sc) =>
          Cardinality({n \in 1 .. Len(log') : log'[n].t = "wcleanup"}) = 1 ]_vars

\* C38: an effect is in the dep set of a key exactly when that dep set is in
\* its deps list, no dep set is in the list twice, and an effect that has
\* been stopped is in no dep set.
C38_GraphAndDepsAgree ==
  /\ \A e \in Eff : \A key \in Keys : InSeq(e, targetMap[key]) <=> InSeq(key, deps[e])
  /\ \A e \in Eff : \A m, n \in 1 .. Len(deps[e]) : deps[e][m] = deps[e][n] => m = n
  /\ \A key \in Keys : \A m, n \in 1 .. Len(targetMap[key]) :
        targetMap[key][m] = targetMap[key][n] => m = n
  /\ \A e \in UEff : ~isActive[e] => \A key \in Keys : ~InSeq(e, targetMap[key])
\* The body of an effect ran after the effect had been stopped, reading its
\* ref again, while the other effect is in a dep set.
C38_Witness ==
  \E e \in UEff :
    /\ ~isActive[e] /\ hasStop[e] /\ deps[Other(e)] # <<>>
    /\ \E m, n \in Idx : m < n /\ log[m].t = "stop" /\ log[m].x = e
                          /\ log[n].t = "run" /\ log[n].x = e

\* The batch(fn) calls whose fn is executing at event n: those begun and not
\* ended, less those whose fn has returned and that are flushing or about
\* to return.
FnsInProgress(n) ==
  log[n].b - (Cardinality({m \in 1 .. n - 1 : log[m].t = "fnret"})
              - Cardinality({m \in 1 .. n : log[m].t = "bout"}))

\* C39: between public calls no batch() call is in progress, so batchStack
\* is 0 and isBatching is false; and at every event of a call isBatching is
\* true exactly when the fn of some batch() call is executing.
C39_CounterMatchesCallsInProgress ==
  /\ batchStack = 0 /\ ~isBatching
  /\ \A n \in Idx : log[n].q <=> FnsInProgress(n) > 0

\* A watch of the ref a without deep is in place and has not been stopped,
\* and no batch is pending.
WatchingRefAtRest ==
  /\ app \in WatchApps /\ Watches[app].src = "ref" /\ ~Watches[app].deep
  /\ body[1] = WatchBody /\ isActive[1] /\ ~isFirstRun
  /\ ~isBatching /\ updateQueue = <<>>

\* C40: between public calls, with no batch pending, the old value such a
\* watch retains is the value the ref holds.
C40_OldValueIsCurrentValue ==
  WatchingRefAtRest => ObjectIs(oldValue, val[1])

====
